---- MODULE Spec2Model ----
(***************************************************************************)
(* Extraction evaluation engine of smart-deal-finder: field normalisers,   *)
(* similarity scorers, the greedy matchers, per-sample scoring, JSON       *)
(* recovery, sample building, the benchmark harnesses that drive them and  *)
(* the summary files they write.                                           *)
(*                                                                         *)
(* Text is a tuple of one-character strings.  Ratios that Python computes  *)
(* as floats by one correctly rounded division are kept as exact           *)
(* fractions <<num, den>> and compared by cross-multiplication.            *)
(***************************************************************************)
EXTENDS Integers, Sequences, FiniteSets, TLC

VARIABLES
    \* scoring of one sample: the inputs, the program position, the matches of
    \* _match_deals, the metrics of _score_prediction_lists and the report of
    \* evaluate_metrics
    cur_gt, cur_pred, score_pc, matches, metrics, report,
    \* recovery of one response: the text and the value recovered from it
    resp_text, pred_obj,
    \* a harness run: which harness, the model ids and the samples it is given,
    \* the positions in both, the program position, the accumulators of
    \* _run_model, its diagnostics and log file, main's summaries and
    \* diagnostics, the preds / gts lists and the report of the benchmark
    \* scripts, whether a KeyboardInterrupt was raised and whether an exception
    \* left main; whether an API key was given, the extractor calls started in
    \* the current loop (sample index, records flushed so far, extractor) and
    \* the sample indices whose extractor call failed
    harness, specs, samples, spec_idx, idx, run_pc, agg, counters, diag_samples,
    log, all_summaries, diagnostics, preds, gts, results, interrupted, escaped,
    api_key, calls, failures,
    \* the summary files main rewrites after every model id
    summary_json, summary_csv,
    \* one call of a cloud extractor: the provider, the loop variable attempt,
    \* the responses of the HTTP requests made so far, the seconds slept, the
    \* program position and the text returned
    provider, attempt, http_log, slept, retry_pc, content,
    \* one call of a pure function: its name, its arguments, the program
    \* position and the value returned
    fn, args, call_pc, ret,
    \* concurrent calls of _score_prediction_lists: the call frame of each
    \* thread (its arguments, position and locals) and the lists its caller
    \* passed
    threads, given

score_vars == <<cur_gt, cur_pred, score_pc, matches, metrics, report>>
parse_vars == <<resp_text, pred_obj>>
run_vars == <<harness, specs, samples, spec_idx, idx, run_pc, agg, counters,
              diag_samples, log, all_summaries, diagnostics, preds, gts, results,
              interrupted, escaped, api_key, calls, failures,
              summary_json, summary_csv>>
retry_vars == <<provider, attempt, http_log, slept, retry_pc, content>>
call_vars == <<fn, args, call_pc, ret>>
thread_vars == <<threads, given>>
aux_vars == <<call_vars, thread_vars>>
vars == <<score_vars, parse_vars, run_vars, retry_vars, aux_vars>>

(***************************************************************************)
(* Program constants                                                       *)
(***************************************************************************)
NAME_SIM_THRESHOLD == <<8, 10>>
UNIT_SIM_THRESHOLD == <<5, 10>>
NAME_MATCH_THRESHOLD == <<5, 10>>
SUBSTRING_BONUS == <<9, 10>>
MIN_NAME_LEN == 4
\* NUMERIC_TOLERANCE = 0.01, in cents
NUMERIC_TOLERANCE == 1

(***************************************************************************)
(* Fractions                                                               *)
(***************************************************************************)
FLe(x, y) == x[1] * y[2] <= y[1] * x[2]
FLt(x, y) == x[1] * y[2] < y[1] * x[2]
FEq(x, y) == x[1] * y[2] = y[1] * x[2]
FMax(x, y) == IF FLt(x, y) THEN y ELSE x
FZero == <<0, 1>>
FOne == <<1, 1>>

RECURSIVE Gcd(_, _)
Gcd(a, b) == IF b = 0 THEN a ELSE Gcd(b, a % b)

FNorm(x) == LET g == Gcd(x[1], x[2]) IN IF g = 0 THEN FZero ELSE <<x[1] \div g, x[2] \div g>>
FAdd(x, y) == FNorm(<<x[1] * y[2] + y[1] * x[2], x[2] * y[2]>>)
\* Rate without the zero test: <<0, 0>> stands for the ZeroDivisionError
RateUnguarded(n, d) == IF d # 0 THEN FNorm(<<n, d>>) ELSE <<0, 0>>

\* Python's  n / d if d else 0.0
Rate(n, d) == IF d # 0 THEN FNorm(<<n, d>>) ELSE FZero

Min(a, b) == IF a <= b THEN a ELSE b
Max(a, b) == IF a >= b THEN a ELSE b

(***************************************************************************)
(* Characters and text helpers                                             *)
(***************************************************************************)
DigitChars == <<"0","1","2","3","4","5","6","7","8","9">>
DigitMap == ("0" :> 0) @@ ("1" :> 1) @@ ("2" :> 2) @@ ("3" :> 3) @@ ("4" :> 4) @@
            ("5" :> 5) @@ ("6" :> 6) @@ ("7" :> 7) @@ ("8" :> 8) @@ ("9" :> 9)
\* str.lower() on the letters A-Z
LowerMap == [A |-> "a", B |-> "b", C |-> "c", D |-> "d", E |-> "e", F |-> "f", G |-> "g",
             H |-> "h", I |-> "i", J |-> "j", K |-> "k", L |-> "l", M |-> "m", N |-> "n",
             O |-> "o", P |-> "p", Q |-> "q", R |-> "r", S |-> "s", T |-> "t", U |-> "u",
             V |-> "v", W |-> "w", X |-> "x", Y |-> "y", Z |-> "z"]
LowerAlpha == {"a","b","c","d","e","f","g","h","i","j","k","l","m",
               "n","o","p","q","r","s","t","u","v","w","x","y","z"}
SpaceChars == {" ", "\t", "\n"}

IsSpace(c) == c \in SpaceChars
IsDigit(c) == c \in DOMAIN DigitMap
DigitVal(c) == DigitMap[c]
IsLowerAlpha(c) == c \in LowerAlpha
\* [a-z0-9]
IsTokenChar(c) == IsLowerAlpha(c) \/ IsDigit(c)
LowerChar(c) == IF c \in DOMAIN LowerMap THEN LowerMap[c] ELSE c
Lower(s) == [i \in 1..Len(s) |-> LowerChar(s[i])]

\* s[i:] in Python terms, 1-based
Drop(s, n) == SubSeq(s, n + 1, Len(s))
Take(s, n) == SubSeq(s, 1, n)

StartsWithAt(s, i, p) == i + Len(p) - 1 <= Len(s) /\ SubSeq(s, i, i + Len(p) - 1) = p
Contains(s, p) == \E i \in 1..(Len(s) + 1) : StartsWithAt(s, i, p)

\* str.replace(old, new): leftmost, non-overlapping occurrences
RECURSIVE Replace(_, _, _)
Replace(s, old, new) ==
    IF Len(s) < Len(old) THEN s
    ELSE IF StartsWithAt(s, 1, old) THEN new \o Replace(Drop(s, Len(old)), old, new)
    ELSE <<s[1]>> \o Replace(Drop(s, 1), old, new)

\* re.sub(r"\s+", " ", s).strip()
RECURSIVE CollapseWs(_)
CollapseWs(s) ==
    IF s = <<>> THEN <<>>
    ELSE IF IsSpace(s[1])
         THEN IF Len(s) >= 2 /\ IsSpace(s[2]) THEN CollapseWs(Drop(s, 1))
              ELSE <<" ">> \o CollapseWs(Drop(s, 1))
         ELSE <<s[1]>> \o CollapseWs(Drop(s, 1))

RECURSIVE LStrip(_)
LStrip(s) == IF s # <<>> /\ IsSpace(s[1]) THEN LStrip(Drop(s, 1)) ELSE s
RECURSIVE RStrip(_)
RStrip(s) == IF s # <<>> /\ IsSpace(s[Len(s)]) THEN RStrip(Take(s, Len(s) - 1)) ELSE s
Strip(s) == RStrip(LStrip(s))

(***************************************************************************)
(* Untyped JSON field values.  k is the Python type of the value:          *)
(* "missing" (the key is absent), "none" (null), "str" (s = the text),     *)
(* "int" (n = the value), "float" (n = the value in cents), "list" (b =    *)
(* its items, numbers in hundredths).                                      *)
(***************************************************************************)
JMissing == [k |-> "missing", s |-> <<>>, n |-> 0, b |-> <<>>]
JNone == [k |-> "none", s |-> <<>>, n |-> 0, b |-> <<>>]
JStr(t) == [k |-> "str", s |-> t, n |-> 0, b |-> <<>>]
JInt(i) == [k |-> "int", s |-> <<>>, n |-> i, b |-> <<>>]
JFloat(c) == [k |-> "float", s |-> <<>>, n |-> c, b |-> <<>>]
JList(items) == [k |-> "list", s |-> <<>>, n |-> 0, b |-> items]

RECURSIVE NatToStr(_)
NatToStr(i) == IF i < 10 THEN <<DigitChars[i + 1]>>
               ELSE NatToStr(i \div 10) \o <<DigitChars[(i % 10) + 1]>>
IntToStr(i) == IF i < 0 THEN <<"-">> \o NatToStr(-i) ELSE NatToStr(i)
Abs(i) == IF i < 0 THEN -i ELSE i

\* repr of a float holding a whole number of cents: shortest round-trip form
FloatToStr(c) ==
    LET ip == Abs(c) \div 100
        fp == Abs(c) % 100
        frac == IF fp % 10 = 0 THEN <<DigitChars[(fp \div 10) + 1]>>
                ELSE <<DigitChars[(fp \div 10) + 1], DigitChars[(fp % 10) + 1]>>
    IN (IF c < 0 THEN <<"-">> ELSE <<>>) \o NatToStr(ip) \o <<".">> \o frac

\* repr of a list of floats
RECURSIVE JoinFloats(_)
JoinFloats(items) ==
    IF items = <<>> THEN <<>>
    ELSE IF Len(items) = 1 THEN FloatToStr(items[1])
    ELSE FloatToStr(items[1]) \o <<",", " ">> \o JoinFloats(Drop(items, 1))

\* str(value)
PyStr(v) == CASE v.k = "str" -> v.s
              [] v.k = "int" -> IntToStr(v.n)
              [] v.k = "float" -> FloatToStr(v.n)
              [] v.k = "list" -> <<"[">> \o JoinFloats(v.b) \o <<"]">>
              [] OTHER -> <<"N", "o", "n", "e">>

\* bool(value)
Truthy(v) == CASE v.k = "str" -> v.s # <<>>
               [] v.k = "int" -> v.n # 0
               [] v.k = "float" -> v.n # 0
               [] v.k = "list" -> v.b # <<>>
               [] OTHER -> FALSE

\* dict.get(key): an absent key reads as None
Get(v) == IF v.k = "missing" THEN JNone ELSE v
\* dict.get(key, default)
GetOr(v, default) == IF v.k = "missing" THEN default ELSE v

(***************************************************************************)
(* Field normaliser (prebench.py)                                          *)
(***************************************************************************)
_normalize_eval_text(v) ==
    IF v.k = "none" THEN <<>> ELSE Lower(Strip(CollapseWs(PyStr(v))))

\* length of the run of digits of s that starts at position i
RECURSIVE DigitRun(_, _)
DigitRun(s, i) == IF i <= Len(s) /\ IsDigit(s[i]) THEN 1 + DigitRun(s, i + 1) ELSE 0

RECURSIVE DigitsToNat(_)
DigitsToNat(ds) == IF ds = <<>> THEN 0
                   ELSE 10 * DigitsToNat(Take(ds, Len(ds) - 1)) + DigitVal(ds[Len(ds)])

\* value in cents of intDigits "." fracDigits; the modelled inputs carry at
\* most two fraction digits
DecToCents(ids, fds) ==
    100 * DigitsToNat(ids)
    + (CASE Len(fds) = 0 -> 0
         [] Len(fds) = 1 -> 10 * DigitVal(fds[1])
         [] OTHER -> 10 * DigitVal(fds[1]) + DigitVal(fds[2]))

NoNumber == [ok |-> FALSE, c |-> 0]
Number(c) == [ok |-> TRUE, c |-> c]

\* re.search(r"-?\d+(?:\.\d+)?", cleaned) and float() of the match, in cents
SearchNumber(s) ==
    LET starts == {i \in 1..Len(s) :
                      \/ IsDigit(s[i])
                      \/ (s[i] = "-" /\ i < Len(s) /\ IsDigit(s[i + 1]))}
        \* the match: sign, n1 digits from d0, then "." and n2 digits
        Matched(neg, d0, n1, n2) ==
            Number((IF neg THEN -1 ELSE 1)
                   * DecToCents(SubSeq(s, d0, d0 + n1 - 1),
                                SubSeq(s, d0 + n1 + 1, d0 + n1 + n2)))
        Fraction(neg, d0, n1) ==
            Matched(neg, d0, n1,
                    IF d0 + n1 <= Len(s) /\ s[d0 + n1] = "."
                    THEN DigitRun(s, d0 + n1 + 1) ELSE 0)
        MatchAt(i) == IF s[i] = "-" THEN Fraction(TRUE, i + 1, DigitRun(s, i + 1))
                      ELSE Fraction(FALSE, i, DigitRun(s, i))
    IN IF starts = {} THEN NoNumber
       ELSE MatchAt(CHOOSE x \in starts : \A y \in starts : x <= y)

_parse_number(v) ==
    CASE v.k = "none" -> NoNumber
      [] v.k = "int" -> Number(100 * v.n)
      [] v.k = "float" -> Number(v.n)
      [] v.k = "str" -> SearchNumber(Replace(v.s, <<",">>, <<".">>))
      [] OTHER -> NoNumber

\* f"{num:.2f}" of a float holding a whole number of cents; the modelled
\* inputs hold no negative zero
FormatCents(c) ==
    (IF c < 0 THEN <<"-">> ELSE <<>>)
    \o NatToStr(Abs(c) \div 100)
    \o <<".", DigitChars[((Abs(c) % 100) \div 10) + 1], DigitChars[(Abs(c) % 10) + 1]>>

_normalize_price(v) ==
    LET Formatted(num) == IF ~num.ok THEN JNone ELSE JStr(FormatCents(num.c))
    IN Formatted(_parse_number(v))

(***************************************************************************)
(* IEEE-754 double arithmetic of abs(gt_price - pred_price) <= 0.01 for    *)
(* prices that are whole numbers of cents.  fl(c/100) = N / 2^s with       *)
(* s = 52 - binade; RoundErr(c) = 100*N - c*2^s is the rounding error in   *)
(* units of 1/(100 * 2^s).  Two prices one cent apart are subtracted       *)
(* exactly (Sterbenz), so the comparison with fl(0.01) is a comparison of  *)
(* the rounding errors.                                                    *)
(***************************************************************************)
RECURSIVE Pow2(_)
Pow2(k) == IF k = 0 THEN 1 ELSE 2 * Pow2(k - 1)
RECURSIVE Pow2Mod100(_)
Pow2Mod100(k) == IF k = 0 THEN 1 ELSE (2 * Pow2Mod100(k - 1)) % 100

\* e with 2^e <= c/100 < 2^(e+1), for c > 0
Binade(c) ==
    IF c >= 100 THEN CHOOSE e \in 0..20 : 100 * Pow2(e) <= c /\ c < 200 * Pow2(e)
    ELSE -(CHOOSE k \in 0..7 : 100 <= c * Pow2(k) /\ c * Pow2(k) < 200)

RoundErr(c) ==
    LET Signed(t) == IF t < 50 THEN -t ELSE 100 - t
    IN IF c = 0 THEN 0 ELSE Signed((c * Pow2Mod100(52 - Binade(c))) % 100)

\* the rounding error of c/100 in units of 1/(100 * 2^59)
ScaledErr(c) == RoundErr(c) * Pow2(7 + Binade(c))

\* abs(a - b) <= 0.01 as computed in doubles, a and b in cents
FloatWithinTolerance(a, b) ==
    LET Compare(d, hi, lo) ==
            IF d # NUMERIC_TOLERANCE THEN d < NUMERIC_TOLERANCE
            ELSE IF lo = 0 THEN TRUE
            ELSE ScaledErr(hi) - ScaledErr(lo) <= RoundErr(1)
    IN Compare(Abs(a - b), Max(Abs(a), Abs(b)), Min(Abs(a), Abs(b)))

(***************************************************************************)
(* IEEE-754 double arithmetic of the quotients n / d with 0 < n <= d.      *)
(* fl(n/d) = N / 2^s with s = 52 + k, where k = BinadeDown(n, d) is the    *)
(* number of doublings that bring n/d into [1, 2).  QuotientErr(n, d) =    *)
(* d*N - n*2^s is the rounding error in units of 1/(d * 2^s); a quotient   *)
(* that is not exact is never half-way between two doubles.                *)
(***************************************************************************)
RECURSIVE Pow2Mod(_, _)
Pow2Mod(k, m) == IF k = 0 THEN 1 % m ELSE (2 * Pow2Mod(k - 1, m)) % m

BinadeDown(n, d) == CHOOSE k \in 0..30 : d <= n * Pow2(k) /\ n * Pow2(k) < 2 * d

QuotientErr(n, d) ==
    LET Signed(t) == IF 2 * t < d THEN -t ELSE d - t
    IN Signed((n * Pow2Mod(52 + BinadeDown(n, d), d)) % d)

\* the last bit of the significand N of fl(n/d) is set
QuotientOdd(n, d) ==
    (n * Pow2Mod(52 + BinadeDown(n, d), 2 * d) + QuotientErr(n, d) + 2 * d) % (2 * d) = d

\* 1 - k / p == (p - k) / p as computed in doubles, for 0 <= k <= p, p > 0.
\* For k/p >= 1/2 the subtraction is exact (Sterbenz), so the two sides are
\* equal iff the rounding errors cancel; for k/p < 1/2 the difference is
\* rounded to a multiple of 2^-53, to the even neighbour on a tie.
ComplementIsQuotient(k, p) ==
    LET Exact(k1, k2, r1, r2) == r2 * Pow2(k1) + r1 * Pow2(k2) = 0
        Rounded(dist, half) ==
            dist < half \/ (dist = half /\ ~QuotientOdd(p - k, p))
        Compare(k1, k2, r1, r2) ==
            IF k1 <= 1 THEN Exact(k1, k2, r1, r2)
            ELSE Rounded(2 * Abs(r2 * Pow2(k1 - 1) + r1), p * Pow2(k1 - 1))
    IN IF k = 0 \/ k = p THEN TRUE
       ELSE Compare(BinadeDown(k, p), BinadeDown(p - k, p),
                    QuotientErr(k, p), QuotientErr(p - k, p))


(***************************************************************************)
(* Similarity scorer                                                       *)
(***************************************************************************)
\* set(re.findall(r"[a-z0-9]+", s.lower())): scan from position i, cur is the
\* token being read
RECURSIVE TokensFrom(_, _, _)
TokensFrom(t, i, cur) ==
    IF i > Len(t) THEN (IF cur = <<>> THEN {} ELSE {cur})
    ELSE IF IsTokenChar(t[i]) THEN TokensFrom(t, i + 1, Append(cur, t[i]))
    ELSE (IF cur = <<>> THEN {} ELSE {cur}) \cup TokensFrom(t, i + 1, <<>>)

Tokens(s) == TokensFrom(Lower(s), 1, <<>>)

\* |A & B| / |A | B| of two token sets
Jaccard(tokens_a, tokens_b) ==
    IF tokens_a = {} /\ tokens_b = {} THEN FOne
    ELSE IF tokens_a = {} \/ tokens_b = {} THEN FZero
    ELSE FNorm(<<Cardinality(tokens_a \cap tokens_b), Cardinality(tokens_a \cup tokens_b)>>)

_token_set_similarity(a, b) == Jaccard(Tokens(a), Tokens(b))

\* difflib.SequenceMatcher.find_longest_match without junk: the longest
\* common block, earliest in a, then earliest in b
LongestMatch(a, b) ==
    LET blocks == {t \in (1..Len(a)) \X (1..Len(b)) \X (1..Min(Len(a), Len(b))) :
                      /\ t[1] + t[3] - 1 <= Len(a)
                      /\ t[2] + t[3] - 1 <= Len(b)
                      /\ SubSeq(a, t[1], t[1] + t[3] - 1) = SubSeq(b, t[2], t[2] + t[3] - 1)}
    IN IF blocks = {} THEN <<0, 0, 0>>
       ELSE CHOOSE t \in blocks : \A u \in blocks :
               \/ t[3] > u[3]
               \/ (t[3] = u[3] /\ t[1] < u[1])
               \/ (t[3] = u[3] /\ t[1] = u[1] /\ t[2] <= u[2])

\* sum of the sizes of get_matching_blocks()
RECURSIVE MatchingSize(_, _)
MatchingSize(a, b) ==
    LET Around(m) ==
            IF m[3] = 0 THEN 0
            ELSE m[3]
                 + MatchingSize(Take(a, m[1] - 1), Take(b, m[2] - 1))
                 + MatchingSize(Drop(a, m[1] + m[3] - 1), Drop(b, m[2] + m[3] - 1))
    IN IF a = <<>> \/ b = <<>> THEN 0 ELSE Around(LongestMatch(a, b))

\* SequenceMatcher(None, a, b).ratio()
SeqRatio(a, b) ==
    IF Len(a) + Len(b) = 0 THEN FOne
    ELSE FNorm(<<2 * MatchingSize(a, b), Len(a) + Len(b)>>)

_name_similarity(a, b) ==
    LET Best(norm_a, norm_b) ==
            FMax(FMax(SeqRatio(norm_a, norm_b), _token_set_similarity(norm_a, norm_b)),
                 IF /\ Len(norm_a) >= MIN_NAME_LEN /\ Len(norm_b) >= MIN_NAME_LEN
                    /\ (Contains(norm_b, norm_a) \/ Contains(norm_a, norm_b))
                 THEN SUBSTRING_BONUS ELSE FZero)
    IN Best(_normalize_eval_text(a), _normalize_eval_text(b))

\* re.fullmatch(r"[0-9]+([.,][0-9]+)?", s)
IsPlainNumber(s) ==
    LET Whole(n1) ==
            /\ n1 >= 1
            /\ \/ n1 = Len(s)
               \/ /\ n1 + 1 < Len(s)
                  /\ s[n1 + 1] \in {".", ","}
                  /\ DigitRun(s, n1 + 2) = Len(s) - n1 - 1
    IN Whole(DigitRun(s, 1))

RECURSIVE SpaceRun(_, _)
SpaceRun(s, i) == IF i <= Len(s) /\ IsSpace(s[i]) THEN 1 + SpaceRun(s, i + 1) ELSE 0

\* length matched at position i by  \s*[-:]?\s*[0-9]+([.,][0-9]+)?  , -1 if none
TailLen(s, i) ==
    LET \* n1 digits from p3, then [.,] and n2 digits
        Ends(p3, n1, n2) ==
            IF n1 = 0 THEN -1 ELSE (IF n2 > 0 THEN p3 + n1 + 1 + n2 ELSE p3 + n1) - i
        Digits(p3, n1) ==
            Ends(p3, n1, IF p3 + n1 <= Len(s) /\ s[p3 + n1] \in {".", ","}
                         THEN DigitRun(s, p3 + n1 + 1) ELSE 0)
        Number2(p3) == Digits(p3, DigitRun(s, p3))
        Sep(p1) == IF p1 <= Len(s) /\ s[p1] \in {"-", ":"}
                   THEN Number2(p1 + 1 + SpaceRun(s, p1 + 1))
                   ELSE Number2(p1)
    IN Sep(i + SpaceRun(s, i))

\* re.sub(r"(h1|h2|...)\s*[-:]?\s*[0-9]+([.,][0-9]+)?", "", s) ; heads lists
\* the alternatives in the order of the pattern
RECURSIVE SubPricePhrase(_, _)
SubPricePhrase(s, heads) ==
    IF s = <<>> THEN <<>>
    ELSE LET \* the first alternative that matches at the start of s
             Cut(h) == SubPricePhrase(
                          Drop(s, Len(heads[h]) + TailLen(s, Len(heads[h]) + 1)), heads)
             Scan(hits) == IF hits = {} THEN <<s[1]>> \o SubPricePhrase(Drop(s, 1), heads)
                           ELSE Cut(CHOOSE x \in hits : \A y \in hits : x <= y)
         IN Scan({h \in 1..Len(heads) :
                     StartsWithAt(s, 1, heads[h]) /\ TailLen(s, Len(heads[h]) + 1) >= 0})

KgHeads == << <<"k","g","-","p","r","e","i","s">>, <<"k","g"," ","p","r","e","i","s">>,
              <<"k","g","p","r","e","i","s">>,
              <<"p","r","i","c","e"," ","p","e","r"," ","k","g">>,
              <<"p","r","e","i","s","/","k","g">>,
              <<"€","/","k","g">>, <<"e","u","r","/","k","g">>, <<"/","k","g">> >>
LHeads == << <<"l","-","p","r","e","i","s">>, <<"l"," ","p","r","e","i","s">>,
             <<"l","p","r","e","i","s">>,
             <<"p","r","i","c","e"," ","p","e","r"," ","l">>,
             <<"p","r","e","i","s","/","l">>,
             <<"€","/","l">>, <<"e","u","r","/","l">>, <<"/","l">> >>

\* the chain of str.replace calls, in source order
UnitReplacements ==
    << << <<"s","t","ü","c","k">>, <<"s","t","k">> >>,
       << <<"s","t","u","e","c","k">>, <<"s","t","k">> >>,
       << <<"s","t","u","c","k">>, <<"s","t","k">> >>,
       << <<"p","i","e","c","e">>, <<"s","t","k">> >>,
       << <<"p","a","c","k","u","n","g">>, <<"p","a","c","k">> >>,
       << <<"p","k">>, <<"p","a","c","k">> >>,
       << <<"l","i","t","e","r">>, <<"l">> >>,
       << <<"m","i","l","l","i","l","i","t","e","r">>, <<"m","l">> >>,
       << <<"g","r","a","m","m">>, <<"g">> >>,
       << <<"k","i","l","o","g","r","a","m","m">>, <<"k","g">> >> >>

RECURSIVE ReplaceChain(_, _, _)
ReplaceChain(s, reps, i) ==
    IF i > Len(reps) THEN s
    ELSE ReplaceChain(Replace(s, reps[i][1], reps[i][2]), reps, i + 1)

_normalize_unit_eval(v) ==
    LET Canonical(s) ==
            IF s = <<>> THEN <<>>
            ELSE IF IsPlainNumber(s) THEN <<>>
            ELSE IF Contains(s, <<"e","u","r">>) \/ Contains(s, <<"€">>) THEN <<>>
            ELSE Strip(CollapseWs(ReplaceChain(
                     SubPricePhrase(SubPricePhrase(s, KgHeads), LHeads),
                     UnitReplacements, 1)))
    IN Canonical(_normalize_eval_text(v))

_normalize_text(v) ==
    IF v.k = "none" THEN <<>> ELSE Strip(CollapseWs(PyStr(v)))

\* the normaliser of annotation entries: None where the evaluation variant
\* returns the empty text
_normalize_unit(v) ==
    LET Canonical(s) ==
            IF s = <<>> THEN JNone
            ELSE IF IsPlainNumber(s) THEN JNone
            ELSE IF Contains(s, <<"e","u","r">>) \/ Contains(s, <<"€">>) THEN JNone
            ELSE JStr(Strip(CollapseWs(ReplaceChain(
                     SubPricePhrase(SubPricePhrase(s, KgHeads), LHeads),
                     UnitReplacements, 1))))
    IN Canonical(Lower(_normalize_text(v)))


(***************************************************************************)
(* Deal records as untyped dicts, and the inputs the model draws from      *)
(***************************************************************************)
Deal(pn, pr, un) ==
    [product_name |-> pn, name |-> JMissing, price |-> pr, unit |-> un,
     bbox |-> JMissing, box |-> JMissing]

sEi == <<"e", "i">>
sEiUpper == <<"E", "i">>
sEis == <<"e", "i", "s">>
sEs == <<"e", "s">>
sLandliebe == <<"L","a","n","d","l","i","e","b","e"," ","J","o","g","h","u","r","t">>
sLandliebe500 == sLandliebe \o <<" ", "5", "0", "0", "g">>

p199 == JStr(<<"1", ".", "9", "9">>)
p200 == JStr(<<"2", ".", "0", "0">>)
p249 == JStr(<<"2", ".", "4", "9">>)
p15 == JStr(<<"1", ".", "5">>)
p150 == JStr(<<"1", ".", "5", "0">>)
p001 == JStr(<<"0", ".", "0", "1">>)
p002 == JStr(<<"0", ".", "0", "2">>)
pComma == JStr(<<"1", ",", "9", "9", " ", "€">>)
pText == JStr(<<"n", "/", "a">>)

u1l == JStr(<<"1", " ", "l">>)
uL == JStr(<<"l">>)
u1liter == JStr(<<"1", " ", "L", "i", "t", "e", "r">>)
u500g == JStr(<<"5", "0", "0", " ", "g">>)
u500ml == JStr(<<"5", "0", "0", " ", "m", "l">>)
uPrice == JStr(<<"2", ".", "4", "9", " ", "€">>)
uNumber == JStr(<<"1", ".", "5">>)
uKgPreis == JStr(<<"/", "k", "g", " ", "3", ".", "9", "9">>)

\* deals that differ in their names: what the matchers decide on
MatchDeals ==
    { Deal(JStr(sEi), p199, u1l),
      Deal(JStr(sEis), p200, JNone),
      Deal(JStr(sEs), JFloat(199), u1liter),
      Deal(JNone, JNone, uPrice) }

PricePool == {p199, p200, p249, p15, p150, p001, p002, pComma, pText, JNone, JFloat(199)}
UnitPool == {u1l, uL, u1liter, u500g, u500ml, uPrice, uNumber, uKgPreis, JNone}

\* deals with one name that differ in price or in unit: what scoring decides on
PriceDeals == { Deal(JStr(sEiUpper), pr, JNone) : pr \in PricePool }
UnitDeals == { Deal(JStr(sEiUpper), p249, un) : un \in UnitPool }

ScenarioGt == Deal(JStr(sLandliebe), p199, JNone)
ScenarioPred == Deal(JStr(sLandliebe500), p199, JNone)

MaxGt == 2
MaxPred == 2

SeqsUpTo(S, n) == UNION { [1..m -> S] : m \in 0..n }

\* k deals of one name with k different prices, in every order
sMilch == <<"M", "i", "l", "c", "h">>
DuplicateDeals == { Deal(JStr(sMilch), pr, JNone) : pr \in {p199, p249, p150} }
Injections(S, k) == { f \in [1..k -> S] : \A i, j \in 1..k : i # j => f[i] # f[j] }
Duplicates ==
    UNION { Injections(DuplicateDeals, k) \X Injections(DuplicateDeals, k) :
                k \in 1..(IF MaxGt < MaxPred THEN MaxGt ELSE MaxPred) }

\* one annotated deal and three predicted ones, at most two of them by its name
Overpredictions ==
    { << <<g>>, <<a, b, Deal(JStr(sEs), p199, JNone)>> >> :
          g \in {Deal(JStr(sEi), p199, u1l)},
          a \in {Deal(JStr(sEi), p199, u500g), Deal(JNone, JNone, JNone)},
          b \in {Deal(JStr(sEi), p249, u1l), Deal(JStr(sEis), p200, JNone)} }

ScoreSamples ==
    { <<g, p>> : g \in SeqsUpTo(MatchDeals, MaxGt), p \in SeqsUpTo(MatchDeals, MaxPred) }
    \cup Duplicates
    \cup Overpredictions
    \cup { << <<g>>, <<p>> >> : g \in PriceDeals, p \in PriceDeals }
    \cup { << <<g>>, <<p>> >> : g \in UnitDeals, p \in UnitDeals }
    \cup { << <<ScenarioGt>>, <<ScenarioPred>> >> }


(***************************************************************************)
(* Matcher and per-sample scoring of prebench.py.  List positions are      *)
(* 1-based; the source's "no index" value -1 is 0 here.                    *)
(***************************************************************************)
\* if sim > best[1]: best = (pi, sim)
Better(best, pi, sim) == IF FLt(best[2], sim) THEN <<pi, sim>> ELSE best

\* BestPred without the "if pi in used_pred: continue" test
RECURSIVE BestPredIgnoringUsed(_, _, _, _, _)
BestPredIgnoringUsed(gt_name, pred_list, used_pred, pi, best) ==
    IF pi > Len(pred_list) THEN best
    ELSE BestPredIgnoringUsed(gt_name, pred_list, used_pred, pi + 1,
            Better(best, pi, _name_similarity(gt_name, Get(pred_list[pi].product_name))))

\* the inner loop over pred_list, from position pi with the running best
RECURSIVE BestPred(_, _, _, _, _)
BestPred(gt_name, pred_list, used_pred, pi, best) ==
    IF pi > Len(pred_list) THEN best
    ELSE IF pi \in used_pred THEN BestPred(gt_name, pred_list, used_pred, pi + 1, best)
    ELSE BestPred(gt_name, pred_list, used_pred, pi + 1,
            Better(best, pi, _name_similarity(gt_name, Get(pred_list[pi].product_name))))

\* CommitsMatch with > in place of >=
CommitsMatchStrict(best) == best[1] # 0 /\ FLt(NAME_SIM_THRESHOLD, best[2])

\* if best[0] != -1 and best[1] >= NAME_SIM_THRESHOLD
CommitsMatch(best) == best[1] # 0 /\ FLe(NAME_SIM_THRESHOLD, best[2])

\* MatchFrom without used_pred.add(best[0])
RECURSIVE MatchFromUnclaimed(_, _, _, _, _)
MatchFromUnclaimed(gt_list, pred_list, gi, used_pred, ms) ==
    LET Step(best) ==
            IF CommitsMatch(best)
            THEN MatchFromUnclaimed(gt_list, pred_list, gi + 1, used_pred,
                                    Append(ms, <<gi, best[1], best[2]>>))
            ELSE MatchFromUnclaimed(gt_list, pred_list, gi + 1, used_pred, ms)
    IN IF gi > Len(gt_list) THEN ms
       ELSE Step(BestPred(Get(gt_list[gi].product_name), pred_list, used_pred,
                          1, <<0, FZero>>))

\* MatchFrom that lets a later ground-truth item take a claimed predicted
\* item away from the match that holds it
RECURSIVE MatchFromReassigning(_, _, _, _, _)
MatchFromReassigning(gt_list, pred_list, gi, used_pred, ms) ==
    LET Step(best) ==
            IF CommitsMatch(best)
            THEN MatchFromReassigning(gt_list, pred_list, gi + 1, used_pred \cup {best[1]},
                    Append(SelectSeq(ms, LAMBDA m : m[2] # best[1]),
                           <<gi, best[1], best[2]>>))
            ELSE MatchFromReassigning(gt_list, pred_list, gi + 1, used_pred, ms)
    IN IF gi > Len(gt_list) THEN ms
       ELSE Step(BestPredIgnoringUsed(Get(gt_list[gi].product_name), pred_list, used_pred,
                                      1, <<0, FZero>>))

\* the loop over gt_list, from position gi
RECURSIVE MatchFrom(_, _, _, _, _)
MatchFrom(gt_list, pred_list, gi, used_pred, ms) ==
    LET Step(best) ==
            IF CommitsMatch(best)
            THEN MatchFrom(gt_list, pred_list, gi + 1, used_pred \cup {best[1]},
                           Append(ms, <<gi, best[1], best[2]>>))
            ELSE MatchFrom(gt_list, pred_list, gi + 1, used_pred, ms)
    IN IF gi > Len(gt_list) THEN ms
       ELSE Step(BestPred(Get(gt_list[gi].product_name), pred_list, used_pred,
                          1, <<0, FZero>>))

_match_deals(gt_list, pred_list) == MatchFrom(gt_list, pred_list, 1, {}, <<>>)

\* gt_price is not None and pred_price is not None
\* and abs(gt_price - pred_price) <= NUMERIC_TOLERANCE
PricesClose(gt_price, pred_price) ==
    gt_price.ok /\ pred_price.ok /\ FloatWithinTolerance(gt_price.c, pred_price.c)

PriceOk(gt, pred) ==
    PricesClose(_parse_number(Get(gt.price)), _parse_number(Get(pred.price)))

\* UnitsClose with > in place of >=
UnitsCloseStrict(gt_unit, pred_unit) ==
    IF gt_unit = <<>> \/ pred_unit = <<>> THEN TRUE
    ELSE FLt(UNIT_SIM_THRESHOLD, _token_set_similarity(gt_unit, pred_unit))

\* not gt_unit or not pred_unit
\* or _token_set_similarity(gt_unit, pred_unit) >= UNIT_SIM_THRESHOLD
UnitsClose(gt_unit, pred_unit) ==
    IF gt_unit = <<>> \/ pred_unit = <<>> THEN TRUE
    ELSE FLe(UNIT_SIM_THRESHOLD, _token_set_similarity(gt_unit, pred_unit))

UnitOk(gt, pred) ==
    UnitsClose(_normalize_unit_eval(Get(gt.unit)), _normalize_unit_eval(Get(pred.unit)))

NoCounts == [price_correct |-> 0, unit_correct |-> 0, e2e_correct |-> 0]

\* Tally that counts a pair end-to-end when either field is right
TallyEither(counts, price_ok, unit_ok) ==
    [price_correct |-> counts.price_correct + (IF price_ok THEN 1 ELSE 0),
     unit_correct |-> counts.unit_correct + (IF unit_ok THEN 1 ELSE 0),
     e2e_correct |-> counts.e2e_correct + (IF price_ok \/ unit_ok THEN 1 ELSE 0)]

\* the counters after one matched pair
Tally(counts, price_ok, unit_ok) ==
    [price_correct |-> counts.price_correct + (IF price_ok THEN 1 ELSE 0),
     unit_correct |-> counts.unit_correct + (IF unit_ok THEN 1 ELSE 0),
     e2e_correct |-> counts.e2e_correct + (IF price_ok /\ unit_ok THEN 1 ELSE 0)]

\* the loop over the matches, from position i
RECURSIVE CountCorrect(_, _, _, _, _)
CountCorrect(ms, gt_list, pred_list, i, counts) ==
    IF i > Len(ms) THEN counts
    ELSE CountCorrect(ms, gt_list, pred_list, i + 1,
            Tally(counts,
                  PriceOk(gt_list[ms[i][1]], pred_list[ms[i][2]]),
                  UnitOk(gt_list[ms[i][1]], pred_list[ms[i][2]])))

\* F1 over the float values of precision and recall
F1Of(precision, recall) ==
    IF precision[1] # 0 \/ recall[1] # 0
    THEN FNorm(<<2 * precision[1] * recall[1],
                 precision[1] * recall[2] + recall[1] * precision[2]>>)
    ELSE FZero

\* ScoreDict with overprediction_rate over gt_total
ScoreDictOverGt(gt_total, pred_total, matched_count, counts, precision, recall) ==
    [ gt_total |-> gt_total,
      pred_total |-> pred_total,
      matched_count |-> matched_count,
      price_correct_count |-> counts.price_correct,
      unit_correct_count |-> counts.unit_correct,
      e2e_correct_count |-> counts.e2e_correct,
      deal_retrieval_rate |-> recall,
      precision |-> precision,
      f1 |-> F1Of(precision, recall),
      overprediction_rate |-> Rate(pred_total - matched_count, gt_total),
      price_reliability |-> Rate(counts.price_correct, matched_count),
      safe_deal_rate |-> Rate(counts.e2e_correct, gt_total),
      end_to_end_recall |-> Rate(counts.e2e_correct, gt_total),
      name_accuracy |-> recall,
      price_accuracy |-> Rate(counts.price_correct, gt_total),
      unit_accuracy |-> Rate(counts.unit_correct, gt_total) ]

\* the returned dict, from the totals and the counters
ScoreDict(gt_total, pred_total, matched_count, counts, precision, recall) ==
    [ gt_total |-> gt_total,
      pred_total |-> pred_total,
      matched_count |-> matched_count,
      price_correct_count |-> counts.price_correct,
      unit_correct_count |-> counts.unit_correct,
      e2e_correct_count |-> counts.e2e_correct,
      deal_retrieval_rate |-> recall,
      precision |-> precision,
      f1 |-> F1Of(precision, recall),
      overprediction_rate |-> Rate(pred_total - matched_count, pred_total),
      price_reliability |-> Rate(counts.price_correct, matched_count),
      safe_deal_rate |-> Rate(counts.e2e_correct, gt_total),
      end_to_end_recall |-> Rate(counts.e2e_correct, gt_total),
      name_accuracy |-> recall,
      price_accuracy |-> Rate(counts.price_correct, gt_total),
      unit_accuracy |-> Rate(counts.unit_correct, gt_total) ]

\* scoring from the matches on
ScoreMatches(gt_list, pred_list, ms) ==
    ScoreDict(Len(gt_list), Len(pred_list), Len(ms),
              CountCorrect(ms, gt_list, pred_list, 1, NoCounts),
              Rate(Len(ms), Len(pred_list)), Rate(Len(ms), Len(gt_list)))

_score_prediction_lists(gt_list, pred_list) ==
    ScoreMatches(gt_list, pred_list, _match_deals(gt_list, pred_list))


(***************************************************************************)
(* Parsed JSON values: what json.loads returns for a prediction.  t is the *)
(* Python type ("none" for a failed parse); a list holds items, each a     *)
(* dict (a deal) or a scalar.                                              *)
(***************************************************************************)
NoDeal == Deal(JMissing, JMissing, JMissing)
DictItem(d) == [t |-> "dict", d |-> d]
IntItem == [t |-> "int", d |-> NoDeal]
PNone == [t |-> "none", items |-> <<>>]
PInt == [t |-> "int", items |-> <<>>]
PList(items) == [t |-> "list", items |-> items]
PDict(d) == [t |-> "dict", items |-> <<DictItem(d)>>]
DictItems(deals) == [i \in 1..Len(deals) |-> DictItem(deals[i])]

\* a parsed value as an item of an enclosing list
ItemOf(v) == IF v.t = "dict" THEN v.items[1] ELSE [t |-> v.t, d |-> NoDeal]

(***************************************************************************)
(* Response texts.  A text is a sequence of lexemes: the brackets "[" "]"  *)
(* "{" "}", the comma ",", "ws" (whitespace), "fence" (three backquotes),  *)
(* "json" (the word json), "word" (prose without brackets), "num" (a JSON  *)
(* number) and "d1", "d2", "d3" (the members of a deal object, none of    *)
(* which holds a bracket).  The regular expressions of the parsers only    *)
(* look at brackets, fences and whitespace, so a lexeme is atomic for      *)
(* them.                                                                   *)
(***************************************************************************)
DealLexemes == {"d1", "d2", "d3"}

\* the dict json.loads builds from the members of a deal object
DealOf(lx) ==
    CASE lx = "d1" -> Deal(JStr(sEi), p199, u1l)
      [] lx = "d2" -> Deal(JStr(sEis), p200, JNone)
      [] OTHER -> [Deal(JStr(sEi), p199, JMissing) EXCEPT !.bbox = JStr(<<"1", "2">>)]

NoWs(t) == SelectSeq(t, LAMBDA x : x # "ws")
LexAt(t, i) == IF i \in 1..Len(t) THEN t[i] ELSE "eof"

LoadFail == [ok |-> FALSE, v |-> PNone, next |-> 0]
Loaded(v, next) == [ok |-> TRUE, v |-> v, next |-> next]

\* the JSON value that starts at lexeme i of t, and the elements of an array
RECURSIVE ParseValue(_, _), ParseElems(_, _, _)
ParseValue(t, i) ==
    CASE LexAt(t, i) = "num" -> Loaded(PInt, i + 1)
      [] LexAt(t, i) = "{" /\ LexAt(t, i + 1) = "}" -> Loaded(PDict(NoDeal), i + 2)
      [] LexAt(t, i) = "{" /\ LexAt(t, i + 1) \in DealLexemes /\ LexAt(t, i + 2) = "}" ->
            Loaded(PDict(DealOf(t[i + 1])), i + 3)
      [] LexAt(t, i) = "[" /\ LexAt(t, i + 1) = "]" -> Loaded(PList(<<>>), i + 2)
      [] LexAt(t, i) = "[" /\ LexAt(t, i + 1) # "]" -> ParseElems(t, i + 1, <<>>)
      [] OTHER -> LoadFail

ParseElems(t, i, acc) ==
    LET After(r) ==
            IF ~r.ok THEN LoadFail
            ELSE IF LexAt(t, r.next) = ","
            THEN ParseElems(t, r.next + 1, Append(acc, ItemOf(r.v)))
            ELSE IF LexAt(t, r.next) = "]"
            THEN Loaded(PList(Append(acc, ItemOf(r.v))), r.next + 1)
            ELSE LoadFail
    IN After(ParseValue(t, i))

\* json.loads(text): ok = FALSE when it raises
json_loads(text) ==
    LET Whole(t, r) == IF r.ok /\ r.next = Len(t) + 1 THEN r ELSE LoadFail
    IN Whole(NoWs(text), ParseValue(NoWs(text), 1))

\* first position >= i of lexeme lx in t, 0 if none
FirstAt(t, lx, i) ==
    IF \E p \in i..Len(t) : t[p] = lx
    THEN CHOOSE p \in i..Len(t) : t[p] = lx /\ \A q \in i..(p - 1) : t[q] # lx
    ELSE 0

\* last position of lexeme lx in t, 0 if none
LastAt(t, lx) ==
    IF \E p \in 1..Len(t) : t[p] = lx
    THEN CHOOSE p \in 1..Len(t) : t[p] = lx /\ \A q \in (p + 1)..Len(t) : t[q] # lx
    ELSE 0

\* re.finditer(open .*? close, text, DOTALL) from position i: the shortest
\* matches, left to right, not overlapping
RECURSIVE ShortestMatches(_, _, _, _)
ShortestMatches(t, open, close, i) ==
    LET Closed(p, q) ==
            IF q = 0 THEN <<>>
            ELSE <<SubSeq(t, p, q)>> \o ShortestMatches(t, open, close, q + 1)
        Opened(p) == IF p = 0 THEN <<>> ELSE Closed(p, FirstAt(t, close, p + 1))
    IN Opened(FirstAt(t, open, i))

\* for cand in reversed(candidates): the first that json.loads accepts
RECURSIVE LastLoadable(_, _)
LastLoadable(candidates, k) ==
    LET Try(r) == IF r.ok THEN r.v ELSE LastLoadable(candidates, k - 1)
    IN IF k = 0 THEN PNone ELSE Try(json_loads(candidates[k]))

_parse_json_from_text(text) ==
    LET Recover(r, candidates) ==
            IF r.ok THEN r.v ELSE LastLoadable(candidates, Len(candidates))
    IN IF text = <<>> THEN PNone
       ELSE Recover(json_loads(text),
                    ShortestMatches(text, "[", "]", 1) \o ShortestMatches(text, "{", "}", 1))

\* [o for o in obj if isinstance(o, dict)]
RECURSIVE DictsOf(_)
DictsOf(items) ==
    IF items = <<>> THEN <<>>
    ELSE (IF items[1].t = "dict" THEN <<items[1].d>> ELSE <<>>) \o DictsOf(Tail(items))

_ensure_list(obj) ==
    CASE obj.t = "list" -> DictsOf(obj.items)
      [] obj.t = "dict" -> <<obj.items[1].d>>
      [] OTHER -> <<>>

RECURSIVE SkipWs(_)
SkipWs(t) == IF t # <<>> /\ t[1] = "ws" THEN SkipWs(Tail(t)) ELSE t

\* re.sub(r'```json\s*', '', text)
RECURSIVE DropJsonFences(_)
DropJsonFences(t) ==
    IF t = <<>> THEN <<>>
    ELSE IF LexAt(t, 1) = "fence" /\ LexAt(t, 2) = "json"
    THEN DropJsonFences(SkipWs(Drop(t, 2)))
    ELSE <<t[1]>> \o DropJsonFences(Tail(t))

\* re.sub(r'```', '', text)
DropFences(t) == SelectSeq(t, LAMBDA x : x # "fence")

\* re.search(r'(\[.*\]|\{.*\})', text, re.DOTALL): the leftmost start that has
\* its closing bracket later in the text, up to the last such bracket; the
\* whole text when there is no match
GreedyMatch(t) ==
    LET EndOf(p) == IF t[p] = "[" THEN LastAt(t, "]")
                    ELSE IF t[p] = "{" THEN LastAt(t, "}") ELSE 0
        From(starts) ==
            IF starts = {} THEN t
            ELSE SubSeq(t, CHOOSE p \in starts : \A q \in starts : p <= q,
                        EndOf(CHOOSE p \in starts : \A q \in starts : p <= q))
    IN From({p \in 1..Len(t) : EndOf(p) > p})

clean_json_output(text) ==
    LET Data(r) == IF ~r.ok THEN PNone
                   ELSE IF r.v.t = "dict" THEN PList(r.v.items) ELSE r.v
    IN Data(json_loads(GreedyMatch(DropFences(DropJsonFences(text)))))


(***************************************************************************)
(* benchmark_ollama.py / benchmark_cloud_local.py: normalize_price,        *)
(* calculate_iou and evaluate_metrics.  A result carries raised = TRUE     *)
(* when the Python code raises at that point.                              *)
(***************************************************************************)
normalize_price(v) ==
    IF ~Truthy(v) THEN <<>>
    ELSE Strip(Replace(Replace(Replace(PyStr(v), <<"€">>, <<>>), <<"$">>, <<>>),
                       <<",">>, <<".">>))

\* [float(x) for x in box]: ok = FALSE when the comprehension raises
BoxFloats(box) ==
    CASE box.k = "list" -> [ok |-> TRUE, v |-> box.b]
      [] box.k = "str" ->
            IF \A i \in 1..Len(box.s) : IsDigit(box.s[i])
            THEN [ok |-> TRUE, v |-> [i \in 1..Len(box.s) |-> 100 * DigitVal(box.s[i])]]
            ELSE [ok |-> FALSE, v |-> <<>>]
      [] OTHER -> [ok |-> FALSE, v |-> <<>>]

IouValue(iou) == [raised |-> FALSE, iou |-> iou]
IouRaised == [raised |-> TRUE, iou |-> FZero]

\* calculate_iou without the return of 0.0 for corners that do not overlap
BoxIouUnclipped(b1, b2) ==
    LET Ratio(intersection, union) ==
            IF union > 0 THEN IouValue(FNorm(<<intersection, union>>)) ELSE IouValue(FZero)
        Overlap(intersection) ==
            Ratio(intersection,
                  (b1[3] - b1[1]) * (b1[4] - b1[2])
                  + (b2[3] - b2[1]) * (b2[4] - b2[2]) - intersection)
        Corners(x_left, y_top, x_right, y_bottom) ==
            Overlap((x_right - x_left) * (y_bottom - y_top))
    IN Corners(Max(b1[1], b2[1]), Max(b1[2], b2[2]), Min(b1[3], b2[3]), Min(b1[4], b2[4]))

\* the arithmetic of calculate_iou on two lists of at least four floats
BoxIou(b1, b2) ==
    LET Ratio(intersection, union) ==
            IF union > 0 THEN IouValue(FNorm(<<intersection, union>>)) ELSE IouValue(FZero)
        Overlap(intersection) ==
            Ratio(intersection,
                  (b1[3] - b1[1]) * (b1[4] - b1[2])
                  + (b2[3] - b2[1]) * (b2[4] - b2[2]) - intersection)
        Corners(x_left, y_top, x_right, y_bottom) ==
            IF x_right < x_left \/ y_bottom < y_top THEN IouValue(FZero)
            ELSE Overlap((x_right - x_left) * (y_bottom - y_top))
    IN Corners(Max(b1[1], b2[1]), Max(b1[2], b2[2]), Min(b1[3], b2[3]), Min(b1[4], b2[4]))

calculate_iou(box1, box2) ==
    LET Floats(f1, f2) ==
            IF ~f1.ok \/ ~f2.ok THEN IouValue(FZero)
            ELSE IF Len(f1.v) < 4 \/ Len(f2.v) < 4 THEN IouRaised
            ELSE BoxIou(f1.v, f2.v)
    IN IF ~Truthy(box1) \/ ~Truthy(box2) THEN IouValue(FZero)
       ELSE Floats(BoxFloats(box1), BoxFloats(box2))

IOU_THRESHOLD == <<5, 10>>

\* str(item.get("product_name", item.get("name", ""))).lower()
BenchName(d) == Lower(PyStr(GetOr(d.product_name, GetOr(d.name, JStr(<<>>)))))

NoBestGt == [raised |-> FALSE, score |-> FZero, idx |-> 0]

\* if score > best_score: best_score, best_idx = score, i
BetterGt(best, i, score) ==
    IF FLt(best.score, score) THEN [raised |-> FALSE, score |-> score, idx |-> i] ELSE best

\* the inner loop over gt_list, from position i with the running best
RECURSIVE BestGt(_, _, _, _, _)
BestGt(p_name, gt_list, matched_indices, i, best) ==
    IF i > Len(gt_list) THEN best
    ELSE IF i \in matched_indices THEN BestGt(p_name, gt_list, matched_indices, i + 1, best)
    ELSE IF gt_list[i].t # "dict" THEN [raised |-> TRUE, score |-> FZero, idx |-> 0]
    ELSE BestGt(p_name, gt_list, matched_indices, i + 1,
                BetterGt(best, i, SeqRatio(p_name, BenchName(gt_list[i].d))))

\* if best_score > NAME_MATCH_THRESHOLD
BenchCommits(best_score) == FLt(NAME_MATCH_THRESHOLD, best_score)

\* p_price == normalize_price(gt_match.get("price", "")) and p_price
SamePrice(p_price, g_price) == p_price = g_price /\ p_price # <<>>

BenchPriceOk(p_item, gt_match) ==
    SamePrice(normalize_price(GetOr(p_item.price, JStr(<<>>))),
              normalize_price(GetOr(gt_match.price, JStr(<<>>))))

BenchBox(d) == GetOr(d.bbox, GetOr(d.box, JList(<<>>)))

EmptyStats ==
    [raised |-> FALSE, total_gt |-> 0, total_pred |-> 0, correct_matches |-> 0,
     price_correct |-> 0, bbox_correct |-> 0, bbox_iou_sum |-> FZero,
     sample_matches |-> <<>>]

Raise(stats) == [stats EXCEPT !.raised = TRUE]

\* the counters after a committed match
Credit(stats, price_ok, iou) ==
    [stats EXCEPT !.correct_matches = @ + 1,
                  !.price_correct = @ + (IF price_ok THEN 1 ELSE 0),
                  !.bbox_iou_sum = FAdd(@, iou),
                  !.bbox_correct = @ + (IF FLt(IOU_THRESHOLD, iou) THEN 1 ELSE 0)]

\* the loop over pred_list of one sample, from position pi
RECURSIVE BenchPreds(_, _, _, _, _, _)
BenchPreds(pred_list, gt_list, pi, matched_indices, pairs, stats) ==
    LET Matched(p_item, best, gt_match, iou) ==
            IF iou.raised THEN Raise(stats)
            ELSE BenchPreds(pred_list, gt_list, pi + 1,
                    matched_indices \cup {best.idx},
                    Append(pairs, <<best.idx, pi, best.score>>),
                    Credit(stats, BenchPriceOk(p_item, gt_match), iou.iou))
        Candidate(p_item, best) ==
            IF best.raised THEN Raise(stats)
            ELSE IF ~BenchCommits(best.score)
            THEN BenchPreds(pred_list, gt_list, pi + 1, matched_indices, pairs, stats)
            ELSE Matched(p_item, best, gt_list[best.idx].d,
                         calculate_iou(BenchBox(p_item), BenchBox(gt_list[best.idx].d)))
    IN IF pi > Len(pred_list)
       THEN [stats EXCEPT !.sample_matches = Append(@, pairs)]
       ELSE IF pred_list[pi].t # "dict" THEN Raise(stats)
       ELSE Candidate(pred_list[pi].d,
                      BestGt(BenchName(pred_list[pi].d), gt_list, matched_indices, 1, NoBestGt))

\* len(x) and iteration: a number has neither
HasLen(pv) == pv.t \in {"none", "list"}

\* a loop that pairs the two lists from their ends: a prediction without a
\* ground truth shifts every pair by one
RECURSIVE BenchSamplesShifted(_, _, _, _)
BenchSamplesShifted(predictions, ground_truths, k, stats) ==
    LET shift == Max(Len(predictions) - Len(ground_truths), 0)
    IN IF stats.raised \/ k > Min(Len(predictions), Len(ground_truths)) THEN stats
       ELSE IF ~HasLen(predictions[k + shift]) \/ ~HasLen(ground_truths[k]) THEN Raise(stats)
       ELSE BenchSamplesShifted(predictions, ground_truths, k + 1,
               BenchPreds(predictions[k + shift].items, ground_truths[k].items, 1, {}, <<>>,
                   [stats EXCEPT !.total_gt = @ + Len(ground_truths[k].items),
                                 !.total_pred = @ + Len(predictions[k + shift].items)]))

\* the loop over zip(predictions, ground_truths), from position k
RECURSIVE BenchSamples(_, _, _, _)
BenchSamples(predictions, ground_truths, k, stats) ==
    IF stats.raised \/ k > Min(Len(predictions), Len(ground_truths)) THEN stats
    ELSE IF ~HasLen(predictions[k]) \/ ~HasLen(ground_truths[k]) THEN Raise(stats)
    ELSE BenchSamples(predictions, ground_truths, k + 1,
            BenchPreds(predictions[k].items, ground_truths[k].items, 1, {}, <<>>,
                [stats EXCEPT !.total_gt = @ + Len(ground_truths[k].items),
                              !.total_pred = @ + Len(predictions[k].items)]))

\* the report from the pooled counts, each rate before it is formatted
BenchReport(stats, tp, precision, recall) ==
    [ raised |-> stats.raised,
      f1 |-> F1Of(precision, recall),
      precision |-> precision,
      recall |-> recall,
      price_acc |-> Rate(stats.price_correct, tp),
      bbox_acc |-> Rate(stats.bbox_correct, tp),
      tp |-> tp,
      total_gt |-> stats.total_gt,
      sample_matches |-> stats.sample_matches ]

\* tp + fp = total_pred and tp + fn = total_gt
PooledReport(stats) ==
    BenchReport(stats, stats.correct_matches,
                Rate(stats.correct_matches, stats.total_pred),
                Rate(stats.correct_matches, stats.total_gt))

evaluate_metrics(predictions, ground_truths) ==
    PooledReport(BenchSamples(predictions, ground_truths, 1, EmptyStats))


(***************************************************************************)
(* Scoring one sample: _score_prediction_lists(gt_list, pred_list) of      *)
(* prebench.py and evaluate_metrics([pred_list], [gt_list]) of the         *)
(* benchmark scripts, each applied to a drawn pair of lists.               *)
(***************************************************************************)
\* the agg dict at the start of _run_model; sums are kept as fractions
NewAgg(model_id) ==
    [ model_id |-> model_id, total_samples |-> 0, json_parse_rate |-> FZero,
      deal_retrieval_rate |-> FZero, precision |-> FZero, f1 |-> FZero,
      overprediction_rate |-> FZero, price_reliability |-> FZero,
      safe_deal_rate |-> FZero, end_to_end_recall |-> FZero,
      name_accuracy |-> FZero, price_accuracy |-> FZero, unit_accuracy |-> FZero,
      avg_gt_deals |-> FZero, avg_pred_deals |-> FZero, avg_pred_chars |-> FZero,
      empty_pred_rate |-> FZero, empty_gt_rate |-> FZero, bad_image_rate |-> FZero,
      skipped_bad_images |-> 0 ]

NoCounters ==
    [json_ok |-> 0, empty_pred |-> 0, empty_gt |-> 0, bad_image |-> 0,
     pred_chars_sum |-> 0]

NoMetrics == ScoreDict(0, 0, 0, NoCounts, FZero, FZero)
NoReport == PooledReport(EmptyStats)

\* no response is being recovered
ParseIdle == resp_text = <<>> /\ pred_obj = PNone

\* a file that was not written
NoFile == [written |-> FALSE]

\* no harness is running
RunIdle ==
    /\ harness = "none" /\ specs = <<>> /\ samples = <<>>
    /\ spec_idx = 0 /\ idx = 0 /\ run_pc = "idle"
    /\ agg = NewAgg("none") /\ counters = NoCounters
    /\ diag_samples = <<>> /\ log = <<>>
    /\ all_summaries = <<>> /\ diagnostics = <<>>
    /\ preds = <<>> /\ gts = <<>> /\ results = NoReport
    /\ interrupted = FALSE /\ escaped = FALSE
    /\ api_key = FALSE /\ calls = <<>> /\ failures = {}
    /\ summary_json = NoFile /\ summary_csv = NoFile

\* no cloud extractor call is modelled
RetryIdle ==
    /\ provider = "none" /\ attempt = 0 /\ http_log = <<>>
    /\ slept = 0 /\ retry_pc = "idle" /\ content = <<>>

\* no pure function is being called
CallIdle == fn = "none" /\ args = <<>> /\ call_pc = "idle" /\ ret = <<>>

\* no thread is scoring
ThreadIdle == threads = <<>> /\ given = <<>>

AuxIdle == CallIdle /\ ThreadIdle

InitScore ==
    /\ \E smp \in ScoreSamples : cur_gt = smp[1] /\ cur_pred = smp[2]
    /\ score_pc = "input"
    /\ matches = <<>>
    /\ metrics = NoMetrics
    /\ report = NoReport
    /\ ParseIdle
    /\ RunIdle
    /\ RetryIdle
    /\ AuxIdle
ScorePredictionLists ==
    /\ score_pc = "input"
    /\ matches' = _match_deals(cur_gt, cur_pred)
    /\ metrics' = _score_prediction_lists(cur_gt, cur_pred)
    /\ score_pc' = "scored"
    /\ UNCHANGED <<cur_gt, cur_pred, report, parse_vars, run_vars, retry_vars, aux_vars>>

EvaluateMetrics ==
    /\ score_pc = "input"
    /\ report' = evaluate_metrics(<<PList(DictItems(cur_pred))>>, <<PList(DictItems(cur_gt))>>)
    /\ score_pc' = "evaluated"
    /\ UNCHANGED <<cur_gt, cur_pred, matches, metrics, parse_vars, run_vars, retry_vars, aux_vars>>

NextScore == ScorePredictionLists \/ EvaluateMetrics

SpecScore == InitScore /\ [][NextScore]_vars


(***************************************************************************)
(* Recovering and scoring one response text: the sample body of            *)
(* _run_model (prebench.py) and the loop body of main followed by          *)
(* evaluate_metrics (benchmark scripts), each applied to a drawn text.     *)
(***************************************************************************)
MaxItems == 2

\* the text of a JSON array of deal objects
RECURSIVE ArrayItems(_)
ArrayItems(arr) ==
    IF arr = <<>> THEN <<>>
    ELSE IF Len(arr) = 1 THEN <<"{", arr[1], "}">>
    ELSE <<"{", arr[1], "}", ",">> \o ArrayItems(Tail(arr))

ArrayText(arr) == <<"[">> \o ArrayItems(arr) \o <<"]">>

\* the text wrapped in a Markdown code fence tagged json
Fenced(t) == <<"fence", "json", "ws">> \o t \o <<"ws", "fence">>

Arrays == SeqsUpTo(DealLexemes, MaxItems)

OtherTexts ==
    { <<>>, <<"ws">>, <<"word">>, <<"num">>, <<"[", "num", "]">>,
      <<"{", "d1", "}">>, <<"{", "d3", "}">>,
      <<"word", "ws", "{", "d1", "}", "ws", "{", "d2", "}">>,
      <<"[", "[", "{", "d1", "}", "]", "]">>,
      <<"{", "d1", "}", "ws", "word", "ws", "[", "num", "]">>,
      <<"word", "ws", "[", "[", "num", "]", "]">> }

ParseTexts ==
    { ArrayText(a) : a \in Arrays }
    \cup { Fenced(ArrayText(a)) : a \in Arrays }
    \cup { <<"fence", "ws">> \o ArrayText(a) \o <<"ws", "fence">> : a \in Arrays }
    \cup { <<"word", "ws">> \o ArrayText(a) \o <<"ws", "word">> : a \in Arrays }
    \cup { Take(ArrayText(a), Len(ArrayText(a)) - 1) : a \in Arrays }
    \cup OtherTexts

\* the annotated deals the responses are scored against
ParseGt ==
    << [DealOf("d1") EXCEPT !.bbox = JList(<<0, 0, 1000, 1000>>)], DealOf("d2") >>

\* JsonParseOk that takes every response for parsed
JsonParseOkAlways(obj) == TRUE

\* pred_obj is not None
JsonParseOk(obj) == obj.t # "none"

\* metrics["json_parse_ok"] = ...
WithParseOk(m, ok) == [json_parse_ok |-> ok] @@ m

InitParse ==
    /\ resp_text \in ParseTexts
    /\ pred_obj = PNone
    /\ cur_gt = ParseGt
    /\ cur_pred = <<>>
    /\ score_pc = "text"
    /\ matches = <<>>
    /\ metrics = NoMetrics
    /\ report = NoReport
    /\ RunIdle
    /\ RetryIdle
    /\ AuxIdle
\* the lists and metrics of a sample from the recovered value
ScoreRecovered(obj) ==
    /\ pred_obj' = obj
    /\ cur_pred' = _ensure_list(obj)
    /\ matches' = _match_deals(cur_gt, _ensure_list(obj))
    /\ metrics' = WithParseOk(_score_prediction_lists(cur_gt, _ensure_list(obj)),
                              JsonParseOk(obj))

\* prebench.py: _parse_json_from_text, _ensure_list, _score_prediction_lists
ScoreResponse ==
    /\ score_pc = "text"
    /\ ScoreRecovered(_parse_json_from_text(resp_text))
    /\ score_pc' = "scored"
    /\ UNCHANGED <<resp_text, cur_gt, report, run_vars, retry_vars, aux_vars>>

\* benchmark scripts: preds.append(clean_json_output(res)), evaluate_metrics
EvaluateResponse ==
    /\ score_pc = "text"
    /\ pred_obj' = clean_json_output(resp_text)
    /\ report' = evaluate_metrics(<<clean_json_output(resp_text)>>,
                                  <<PList(DictItems(cur_gt))>>)
    /\ score_pc' = "evaluated"
    /\ UNCHANGED <<resp_text, cur_gt, cur_pred, matches, metrics, run_vars, retry_vars, aux_vars>>

NextParse == ScoreResponse \/ EvaluateResponse

SpecParse == InitParse /\ [][NextParse]_vars


(***************************************************************************)
(* Harness runs.  "prebench": main of prebench.py calling _run_model for   *)
(* each model id.  "bench": main of benchmark_ollama.py and of             *)
(* benchmark_cloud_local.py, which fill preds and gts and then call        *)
(* evaluate_metrics.  A sample carries the annotation text, whether its    *)
(* image loaded, and the text the extractor returns for it.                *)
(***************************************************************************)
MaxSamples == 2
DIAG_VERBOSE == TRUE
DIAG_MAX_SAMPLES == 3

Sample(image_ok, target, response) ==
    [image_ok |-> image_ok, target |-> target, response |-> response]

SamplePool ==
    { Sample(TRUE, ArrayText(<<"d1", "d2">>), ArrayText(<<"d1", "d2">>)),
      Sample(TRUE, ArrayText(<<"d1", "d2">>), Fenced(ArrayText(<<"d1", "d2">>))),
      Sample(TRUE, ArrayText(<<"d1">>), <<"word">>),
      Sample(TRUE, ArrayText(<<"d1">>), <<"num">>),
      Sample(TRUE, ArrayText(<<"d2">>), <<>>),
      Sample(TRUE, <<"word">>, ArrayText(<<"d1">>)),
      Sample(FALSE, ArrayText(<<"d1">>), <<>>) }

\* the samples of the longer runs: a good one, an unparsable response, a bad
\* image
RunPool ==
    { Sample(TRUE, ArrayText(<<"d1">>), ArrayText(<<"d1">>)),
      Sample(TRUE, ArrayText(<<"d1">>), <<"word">>),
      Sample(FALSE, ArrayText(<<"d1">>), <<>>) }

MaxRun == 4

\* model ids: a local one, and one with an owner and a slash
idLocal == <<"g", "e", "m", "m", "a", "3">>
idCloud == <<"Q", "w", "e", "n", "/", "V", "L">>

\* the model ids main is given
ModelLists == { <<idLocal>>, <<idCloud>>, <<idLocal, idCloud>> }

\* the names the call site looks for in spec.model_id.lower()
CloudNames == { <<"d","e","e","p","s","e","e","k">>, <<"g","l","m">>,
                <<"t","h","u","d","m">>, <<"q","w","e","n">> }

\* ("deepseek" in id or "glm" in id or "thudm" in id or "qwen" in id)
\* and "ollama" not in id and "/" in spec.model_id
IsCloudModel(model_id) ==
    /\ \E nm \in CloudNames : Contains(Lower(model_id), nm)
    /\ ~Contains(Lower(model_id), <<"o","l","l","a","m","a">>)
    /\ Contains(model_id, <<"/">>)

\* the extractor the call site selects
Extractor(model_id, key) ==
    IF IsCloudModel(model_id) /\ key THEN "siliconflow" ELSE "ollama"

\* what main is started with: the harness, the model ids, whether an API key
\* is given, the samples
Run(h, ids, key, ss) == [harness |-> h, specs |-> ids, api_key |-> key, samples |-> ss]

SeqsFromTo(S, lo, hi) == UNION { [1..m -> S] : m \in lo..hi }

HarnessRuns ==
    { Run("prebench", ids, key, ss) :
          ids \in ModelLists, key \in BOOLEAN, ss \in SeqsUpTo(SamplePool, MaxSamples) }
    \cup { Run("prebench", <<idLocal>>, FALSE, ss) :
               ss \in SeqsFromTo(RunPool, MaxSamples + 1, MaxRun) }
    \cup { Run("bench", <<idLocal>>, key, ss) :
               key \in BOOLEAN,
               ss \in SeqsUpTo({x \in SamplePool : x.image_ok}, MaxSamples) }

\* len(text) of a lexeme
LexChars(lx) ==
    CASE lx \in {"[", "]", "{", "}", ",", "ws", "num"} -> 1
      [] lx = "fence" -> 3
      [] lx \in {"json", "word"} -> 4
      [] OTHER -> 40

RECURSIVE CharLen(_)
CharLen(text) == IF text = <<>> THEN 0 ELSE LexChars(text[1]) + CharLen(Tail(text))

\* agg[...] += metrics[...]
Accumulate(a, m) ==
    [a EXCEPT !.total_samples = @ + 1,
              !.deal_retrieval_rate = FAdd(@, m.deal_retrieval_rate),
              !.precision = FAdd(@, m.precision),
              !.f1 = FAdd(@, m.f1),
              !.overprediction_rate = FAdd(@, m.overprediction_rate),
              !.price_reliability = FAdd(@, m.price_reliability),
              !.safe_deal_rate = FAdd(@, m.safe_deal_rate),
              !.end_to_end_recall = FAdd(@, m.end_to_end_recall),
              !.name_accuracy = FAdd(@, m.name_accuracy),
              !.price_accuracy = FAdd(@, m.price_accuracy),
              !.unit_accuracy = FAdd(@, m.unit_accuracy),
              !.avg_gt_deals = FAdd(@, <<m.gt_total, 1>>),
              !.avg_pred_deals = FAdd(@, <<m.pred_total, 1>>)]

\* counters that never count an empty ground truth
CountWithoutEmptyGt(c, m, pred_text) ==
    [c EXCEPT !.json_ok = @ + (IF m.json_parse_ok THEN 1 ELSE 0),
              !.pred_chars_sum = @ + CharLen(pred_text),
              !.empty_pred = @ + (IF m.pred_total = 0 THEN 1 ELSE 0)]

\* the local counters after one scored sample
Count(c, m, pred_text) ==
    [c EXCEPT !.json_ok = @ + (IF m.json_parse_ok THEN 1 ELSE 0),
              !.pred_chars_sum = @ + CharLen(pred_text),
              !.empty_pred = @ + (IF m.pred_total = 0 THEN 1 ELSE 0),
              !.empty_gt = @ + (IF m.gt_total = 0 THEN 1 ELSE 0)]

\* DivideBy that leaves the sum as it is
DivideByOne(x, denom) == FNorm(x)

\* agg[...] /= denom
DivideBy(x, denom) == FNorm(<<x[1], x[2] * denom>>)

\* if agg["total_samples"] > 0: every sum becomes a mean
Averaged(a, c) ==
    IF a.total_samples > 0
    THEN [a EXCEPT !.json_parse_rate = Rate(c.json_ok, a.total_samples),
                   !.deal_retrieval_rate = DivideBy(@, a.total_samples),
                   !.precision = DivideBy(@, a.total_samples),
                   !.f1 = DivideBy(@, a.total_samples),
                   !.overprediction_rate = DivideBy(@, a.total_samples),
                   !.price_reliability = DivideBy(@, a.total_samples),
                   !.safe_deal_rate = DivideBy(@, a.total_samples),
                   !.end_to_end_recall = DivideBy(@, a.total_samples),
                   !.name_accuracy = DivideBy(@, a.total_samples),
                   !.price_accuracy = DivideBy(@, a.total_samples),
                   !.unit_accuracy = DivideBy(@, a.total_samples),
                   !.avg_gt_deals = DivideBy(@, a.total_samples),
                   !.avg_pred_deals = DivideBy(@, a.total_samples),
                   !.avg_pred_chars = Rate(c.pred_chars_sum, a.total_samples),
                   !.empty_pred_rate = Rate(c.empty_pred, a.total_samples),
                   !.empty_gt_rate = Rate(c.empty_gt, a.total_samples)]
    ELSE a

\* a finalisation that divides only when a sample was scored
WithBadImagesOfScored(a, c) ==
    IF a.total_samples # 0
    THEN [a EXCEPT !.skipped_bad_images = c.bad_image,
                   !.bad_image_rate = Rate(c.bad_image, a.total_samples + c.bad_image)]
    ELSE a

\* if agg["total_samples"] + bad_image: ...
WithBadImages(a, c) ==
    IF a.total_samples + c.bad_image # 0
    THEN [a EXCEPT !.skipped_bad_images = c.bad_image,
                   !.bad_image_rate = Rate(c.bad_image, a.total_samples + c.bad_image)]
    ELSE a

\* the summary _run_model returns
Summary(a, c) == WithBadImages(Averaged(a, c), c)

\* the metrics of one sample from its annotation and the recovered prediction
RecoveredMetrics(target_text, obj) ==
    WithParseOk(_score_prediction_lists(_ensure_list(_parse_json_from_text(target_text)),
                                        _ensure_list(obj)),
                JsonParseOk(obj))

SampleMetrics(target_text, pred_text) ==
    RecoveredMetrics(target_text, _parse_json_from_text(pred_text))

\* an append that ignores the cap
DiagAppendUncapped(diag, entry, wanted) ==
    IF DIAG_VERBOSE /\ wanted THEN Append(diag, entry) ELSE diag

\* diag_samples.append(...) under DIAG_VERBOSE and the cap
DiagAppend(diag, entry, wanted) ==
    IF DIAG_VERBOSE /\ Len(diag) < DIAG_MAX_SAMPLES /\ wanted THEN Append(diag, entry)
    ELSE diag

InitHarness ==
    /\ \E r \in HarnessRuns :
          /\ harness = r.harness /\ specs = r.specs
          /\ api_key = r.api_key /\ samples = r.samples
    /\ spec_idx = 1
    /\ idx = 1
    /\ run_pc = IF harness = "prebench" THEN "main" ELSE "setup"
    /\ calls = <<>>
    /\ failures = {}
    /\ agg = NewAgg(specs[1])
    /\ counters = NoCounters
    /\ diag_samples = <<>>
    /\ log = <<>>
    /\ all_summaries = <<>>
    /\ diagnostics = <<>>
    /\ preds = <<>>
    /\ gts = <<>>
    /\ results = NoReport
    /\ interrupted = FALSE
    /\ escaped = FALSE
    /\ summary_json = NoFile
    /\ summary_csv = NoFile
    /\ cur_gt = <<>> /\ cur_pred = <<>> /\ score_pc = "idle" /\ matches = <<>>
    /\ metrics = NoMetrics /\ report = NoReport
    /\ ParseIdle
    /\ RetryIdle
    /\ AuxIdle

\* main, for spec in specs: _run_model starts and opens the log file
RunModelStart ==
    /\ harness = "prebench" /\ run_pc = "main" /\ spec_idx <= Len(specs)
    /\ agg' = NewAgg(specs[spec_idx])
    /\ counters' = NoCounters
    /\ diag_samples' = <<>>
    /\ log' = <<>>
    /\ idx' = 1
    /\ run_pc' = "loop"
    /\ calls' = <<>>
    /\ failures' = {}
    /\ UNCHANGED <<harness, specs, samples, api_key, summary_json, summary_csv, spec_idx, all_summaries, diagnostics,
                   preds, gts, results, interrupted, escaped, score_vars, parse_vars, retry_vars, aux_vars>>

\* the loop body for a sample whose image is None
RunModelBadImage ==
    /\ harness = "prebench" /\ run_pc = "loop" /\ idx <= Len(samples)
    /\ ~samples[idx].image_ok
    /\ counters' = [counters EXCEPT !.bad_image = @ + 1]
    /\ diag_samples' = DiagAppend(diag_samples, [index |-> idx, reason |-> "bad_image"], TRUE)
    /\ log' = Append(log, [index |-> idx, error |-> "bad_image"])
    /\ idx' = idx + 1
    /\ UNCHANGED <<harness, specs, samples, api_key, summary_json, summary_csv, calls, failures, spec_idx, run_pc, agg, all_summaries,
                   diagnostics, preds, gts, results, interrupted, escaped,
                   score_vars, parse_vars, retry_vars, aux_vars>>

\* one extractor call: the sample it is made for, the extractor, and the
\* number of records the log holds when it starts
Call(index, extractor, logged) ==
    [index |-> index, extractor |-> extractor, logged |-> logged]

\* the loop body up to the extractor call, which is then in flight
RunModelGenerate ==
    /\ harness = "prebench" /\ run_pc = "loop" /\ idx <= Len(samples)
    /\ samples[idx].image_ok
    /\ run_pc' = "extracting"
    /\ calls' = Append(calls, Call(idx, Extractor(specs[spec_idx], api_key), Len(log)))
    /\ UNCHANGED <<harness, specs, samples, api_key, summary_json, summary_csv, failures, spec_idx, idx, agg, counters, diag_samples,
                   log, all_summaries, diagnostics, preds, gts, results, interrupted,
                   escaped, score_vars, parse_vars, retry_vars, aux_vars>>

\* a loop body that scores the sample but writes no record
RecordSampleNoLog(m, pred_text) ==
    /\ agg' = Accumulate(agg, m)
    /\ counters' = Count(counters, m, pred_text)
    /\ diag_samples' =
          DiagAppend(diag_samples,
                     [index |-> idx, json_parse_ok |-> m.json_parse_ok,
                      gt_total |-> m.gt_total, pred_total |-> m.pred_total],
                     ~m.json_parse_ok \/ m.pred_total = 0)
    /\ log' = log

\* the accumulators, diagnostics and log after a sample with metrics m
RecordSample(m, pred_text) ==
    /\ agg' = Accumulate(agg, m)
    /\ counters' = Count(counters, m, pred_text)
    /\ diag_samples' =
          DiagAppend(diag_samples,
                     [index |-> idx, json_parse_ok |-> m.json_parse_ok,
                      gt_total |-> m.gt_total, pred_total |-> m.pred_total],
                     ~m.json_parse_ok \/ m.pred_total = 0)
    /\ log' = Append(log, [index |-> idx, prediction |-> pred_text, metrics |-> m])

\* the rest of the loop body once the extractor has returned its text
RunModelSample ==
    /\ harness = "prebench" /\ run_pc = "extracting"
    /\ RecordSample(SampleMetrics(samples[idx].target, samples[idx].response),
                    samples[idx].response)
    /\ idx' = idx + 1
    /\ run_pc' = "loop"
    /\ UNCHANGED <<harness, specs, samples, api_key, summary_json, summary_csv, calls, failures, spec_idx, all_summaries, diagnostics,
                   preds, gts, results, interrupted, escaped, score_vars, parse_vars, retry_vars, aux_vars>>

\* the request of the extractor raises or times out inside its try: its
\* except Exception prints the error and returns "", and the loop body goes
\* on with that text
RunModelExtractorFailed ==
    /\ harness = "prebench" /\ run_pc = "extracting"
    /\ RecordSample(SampleMetrics(samples[idx].target, <<>>), <<>>)
    /\ failures' = failures \cup {idx}
    /\ idx' = idx + 1
    /\ run_pc' = "loop"
    /\ UNCHANGED <<harness, specs, samples, api_key, summary_json, summary_csv, calls, spec_idx, all_summaries, diagnostics,
                   preds, gts, results, interrupted, escaped, score_vars, parse_vars, retry_vars, aux_vars>>

\* summary["elapsed_sec"] = time.time() - start; the duration is not modelled
Timed(summary) == summary @@ [elapsed_sec |-> "seconds"]

\* json.dump of the payload: the summaries, and the diagnostics when there
\* are any
JsonFile(summaries, diags) ==
    IF DIAG_VERBOSE /\ diags # <<>>
    THEN [written |-> TRUE, summaries |-> summaries, diagnostics |-> diags]
    ELSE [written |-> TRUE, summaries |-> summaries]

\* one csv.DictWriter row: a column the row has no key for is left empty
CsvRow(fieldnames, row) ==
    [f \in fieldnames |-> IF f \in DOMAIN row THEN row[f] ELSE <<>>]

\* the header of the union of the keys (written sorted) and one row per summary
CsvFile(summaries, fieldnames) ==
    [written |-> TRUE, fieldnames |-> fieldnames,
     rows |-> [i \in 1..Len(summaries) |-> CsvRow(fieldnames, summaries[i])]]

FieldNames(summaries) == UNION {DOMAIN summaries[i] : i \in 1..Len(summaries)}

\* the files as rewritten from the list summaries
Saved(summaries, diags) ==
    /\ summary_json' = JsonFile(summaries, diags)
    /\ summary_csv' = CsvFile(summaries, FieldNames(summaries))

\* a main that writes only the summary of the model id just run
MainRecordLatestOnly(summary, diag) ==
    /\ all_summaries' = Append(all_summaries, Timed(summary))
    /\ diagnostics' = IF DIAG_VERBOSE /\ diag # <<>>
                      THEN Append(diagnostics, <<specs[spec_idx], diag>>)
                      ELSE diagnostics
    /\ Saved(<<Timed(summary)>>, diagnostics')
    /\ spec_idx' = spec_idx + 1
    /\ run_pc' = "main"

\* main after _run_model: all_summaries.append, diagnostics, the summary
\* files are rewritten
MainRecord(summary, diag) ==
    /\ all_summaries' = Append(all_summaries, Timed(summary))
    /\ diagnostics' = IF DIAG_VERBOSE /\ diag # <<>>
                      THEN Append(diagnostics, <<specs[spec_idx], diag>>)
                      ELSE diagnostics
    /\ Saved(all_summaries', diagnostics')
    /\ spec_idx' = spec_idx + 1
    /\ run_pc' = "main"

\* an Exception raised by the extractor call outside its try (image.save)
\* leaves _run_model; main's except Exception turns it into an error summary
RunModelRaise ==
    /\ harness = "prebench" /\ run_pc = "extracting"
    /\ MainRecord([model_id |-> specs[spec_idx], error |-> "exception"],
                  <<[error |-> "exception"]>>)
    /\ failures' = failures \cup {idx}
    /\ UNCHANGED <<harness, specs, samples, api_key, calls, idx, agg, counters, diag_samples, log,
                   preds, gts, results, interrupted, escaped, score_vars, parse_vars, retry_vars, aux_vars>>

\* the loop is exhausted: _run_model finalises agg and returns to main
RunModelReturn ==
    /\ harness = "prebench" /\ run_pc = "loop" /\ idx > Len(samples)
    /\ MainRecord(Summary(agg, counters), diag_samples)
    /\ UNCHANGED <<harness, specs, samples, api_key, calls, failures, idx, agg, counters, diag_samples, log,
                   preds, gts, results, interrupted, escaped, score_vars, parse_vars, retry_vars, aux_vars>>

\* main has run every model id
MainReturn ==
    /\ harness = "prebench" /\ run_pc = "main" /\ spec_idx > Len(specs)
    /\ run_pc' = "done"
    /\ UNCHANGED <<harness, specs, samples, api_key, summary_json, summary_csv, calls, failures, spec_idx, idx, agg, counters, diag_samples,
                   log, all_summaries, diagnostics, preds, gts, results, interrupted,
                   escaped, score_vars, parse_vars, retry_vars, aux_vars>>

\* KeyboardInterrupt inside the per-sample loop of _run_model: neither
\* _run_model nor main (except Exception) handles it
InterruptRunModel ==
    /\ harness = "prebench"
    /\ \/ run_pc = "loop" /\ idx <= Len(samples)
       \/ run_pc = "extracting"
    /\ interrupted' = TRUE
    /\ escaped' = TRUE
    /\ run_pc' = "escaped"
    /\ UNCHANGED <<harness, specs, samples, api_key, summary_json, summary_csv, calls, failures, spec_idx, idx, agg, counters, diag_samples,
                   log, all_summaries, diagnostics, preds, gts, results,
                   score_vars, parse_vars, retry_vars, aux_vars>>

\* setup_client_interactive returns a client whose connection test passed
BenchSetup ==
    /\ harness = "bench" /\ run_pc = "setup" /\ api_key
    /\ run_pc' = "loop"
    /\ UNCHANGED <<harness, specs, samples, api_key, summary_json, summary_csv, calls, failures, spec_idx, idx, agg, counters, diag_samples,
                   log, all_summaries, diagnostics, preds, gts, results, interrupted,
                   escaped, score_vars, parse_vars, retry_vars, aux_vars>>

\* the connection test fails and setup_client_interactive returns None:
\* main returns at once
BenchSetupFailed ==
    /\ harness = "bench" /\ run_pc = "setup" /\ ~api_key
    /\ run_pc' = "aborted"
    /\ UNCHANGED <<harness, specs, samples, api_key, summary_json, summary_csv, calls, failures, spec_idx, idx, agg, counters, diag_samples,
                   log, all_summaries, diagnostics, preds, gts, results, interrupted,
                   escaped, score_vars, parse_vars, retry_vars, aux_vars>>

\* the loop body of the benchmark scripts up to the query, then in flight
BenchQuery ==
    /\ harness = "bench" /\ run_pc = "loop" /\ idx <= Len(samples)
    /\ run_pc' = "querying"
    /\ calls' = Append(calls, Call(idx, "client", Len(preds)))
    /\ UNCHANGED <<harness, specs, samples, api_key, summary_json, summary_csv, failures, spec_idx, idx, agg, counters, diag_samples,
                   log, all_summaries, diagnostics, preds, gts, results, interrupted,
                   escaped, score_vars, parse_vars, retry_vars, aux_vars>>

\* preds.append(...) of value
BenchAppend(value) ==
    /\ preds' = Append(preds, value)
    /\ run_pc' = "pred_appended"
    /\ UNCHANGED <<harness, specs, samples, api_key, summary_json, summary_csv, calls, spec_idx, idx, agg, counters, diag_samples,
                   log, all_summaries, diagnostics, gts, results, escaped,
                   score_vars, parse_vars, retry_vars, aux_vars>>

\* preds.append(clean_json_output(res))
BenchAppendPred ==
    /\ harness = "bench" /\ run_pc = "querying"
    /\ BenchAppend(clean_json_output(samples[idx].response))
    /\ UNCHANGED <<interrupted, failures>>

\* the query raises an Exception: query_ollama returns "[]", the cloud
\* script appends []
BenchQueryError ==
    /\ harness = "bench" /\ run_pc = "querying"
    /\ BenchAppend(PList(<<>>))
    /\ failures' = failures \cup {idx}
    /\ UNCHANGED interrupted

\* gts.append(item['gt_data'])
BenchAppendGt ==
    /\ harness = "bench" /\ run_pc = "pred_appended"
    /\ gts' = Append(gts, json_loads(samples[idx].target).v)
    /\ idx' = idx + 1
    /\ run_pc' = "loop"
    /\ UNCHANGED <<harness, specs, samples, api_key, summary_json, summary_csv, calls, failures, spec_idx, agg, counters, diag_samples,
                   log, all_summaries, diagnostics, preds, results, interrupted,
                   escaped, score_vars, parse_vars, retry_vars, aux_vars>>

\* KeyboardInterrupt inside the loop, caught by main's handler
InterruptBench ==
    /\ harness = "bench"
    /\ \/ run_pc = "loop" /\ idx <= Len(samples)
       \/ run_pc \in {"querying", "pred_appended"}
    /\ interrupted' = TRUE
    /\ run_pc' = "report"
    /\ UNCHANGED <<harness, specs, samples, api_key, summary_json, summary_csv, calls, failures, spec_idx, idx, agg, counters, diag_samples,
                   log, all_summaries, diagnostics, preds, gts, results, escaped,
                   score_vars, parse_vars, retry_vars, aux_vars>>

\* KeyboardInterrupt inside json.loads of clean_json_output: its bare except
\* returns None and the loop goes on
InterruptSwallowed ==
    /\ harness = "bench" /\ run_pc = "querying"
    /\ BenchAppend(PNone)
    /\ interrupted' = TRUE
    /\ UNCHANGED failures

\* results = evaluate_metrics(preds, gts); an exception raised there leaves main
BenchReported(r) ==
    /\ results' = r
    /\ escaped' = r.raised
    /\ run_pc' = IF r.raised THEN "escaped" ELSE "done"

BenchFinalReport ==
    /\ harness = "bench"
    /\ \/ run_pc = "loop" /\ idx > Len(samples)
       \/ run_pc = "report"
    /\ BenchReported(evaluate_metrics(preds, gts))
    /\ UNCHANGED <<harness, specs, samples, api_key, summary_json, summary_csv, calls, failures, spec_idx, idx, agg, counters, diag_samples,
                   log, all_summaries, diagnostics, preds, gts, interrupted,
                   score_vars, parse_vars, retry_vars, aux_vars>>

NextHarness ==
    \/ RunModelStart
    \/ RunModelBadImage
    \/ RunModelGenerate
    \/ RunModelSample
    \/ RunModelExtractorFailed
    \/ RunModelRaise
    \/ RunModelReturn
    \/ MainReturn
    \/ InterruptRunModel
    \/ BenchSetup
    \/ BenchSetupFailed
    \/ BenchQuery
    \/ BenchAppendPred
    \/ BenchQueryError
    \/ BenchAppendGt
    \/ InterruptBench
    \/ InterruptSwallowed
    \/ BenchFinalReport

SpecHarness == InitHarness /\ [][NextHarness]_vars


(***************************************************************************)
(* One call of a cloud extractor: the retry loops of _gemini_generate and  *)
(* _siliconflow_generate.  Each HTTP request gets one of the responses     *)
(* below; slept counts the seconds of the sleeps that precede a retry.     *)
(***************************************************************************)
max_retries == 3
GEMINI_RETRY_SLEEP == 61
SILICON_RETRY_SLEEP == 10

\* a body with the text in place, a body without it, HTTP 429, 503, 400 with
\* "quota" or "limit" in its body, any other 400, HTTP 500, and an exception
\* that is not an HTTPError (timeout, connection reset, body that is not JSON)
Responses == {"text", "malformed", "h429", "h503", "h400quota", "h400", "h500", "error"}

\* the text in a well-formed body
BodyText == <<"[", "{", "d1", "}", "]">>

\* _gemini_generate: the branches that sleep and continue
GeminiRetries(r) == r \in {"h429", "h503", "h400quota"}

\* _siliconflow_generate: if e.code == 429: sleep, continue
SiliconflowRetries(r) == r = "h429"

\* what a request that does not continue returns
Returned(r) == IF r = "text" THEN BodyText ELSE <<>>

InitRetry ==
    /\ provider \in {"gemini", "siliconflow"}
    /\ attempt = 0
    /\ http_log = <<>>
    /\ slept = 0
    /\ retry_pc = "loop"
    /\ content = <<>>
    /\ cur_gt = <<>> /\ cur_pred = <<>> /\ score_pc = "idle" /\ matches = <<>>
    /\ metrics = NoMetrics /\ report = NoReport
    /\ ParseIdle
    /\ RunIdle
    /\ AuxIdle

\* one iteration of the loop: the request is made and answered with r; the
\* branch either sleeps and continues or returns
Attempt(r, retries, sleep) ==
    /\ http_log' = Append(http_log, r)
    /\ IF retries
       THEN /\ slept' = slept + sleep
            /\ attempt' = attempt + 1
            /\ UNCHANGED <<retry_pc, content>>
       ELSE /\ retry_pc' = "returned"
            /\ content' = Returned(r)
            /\ UNCHANGED <<slept, attempt>>
    /\ UNCHANGED <<provider, score_vars, parse_vars, run_vars, aux_vars>>

\* for attempt in range(max_retries + 1) of _gemini_generate
GeminiAttempt ==
    /\ provider = "gemini" /\ retry_pc = "loop" /\ attempt < max_retries + 1
    /\ \E r \in Responses : Attempt(r, GeminiRetries(r), GEMINI_RETRY_SLEEP)

\* for attempt in range(max_retries + 1) of _siliconflow_generate
SiliconflowAttempt ==
    /\ provider = "siliconflow" /\ retry_pc = "loop" /\ attempt < max_retries + 1
    /\ \E r \in Responses : Attempt(r, SiliconflowRetries(r), SILICON_RETRY_SLEEP)

\* the loop is exhausted: return ""
RetryExhausted ==
    /\ retry_pc = "loop" /\ attempt = max_retries + 1
    /\ retry_pc' = "returned"
    /\ content' = <<>>
    /\ UNCHANGED <<provider, attempt, http_log, slept, score_vars, parse_vars, run_vars, aux_vars>>

NextRetry == GeminiAttempt \/ SiliconflowAttempt \/ RetryExhausted

SpecRetry == InitRetry /\ [][NextRetry]_vars


(***************************************************************************)
(* build_samples (prebench.py and the qwen evaluation script).  The        *)
(* annotation files are listed in the order of the two sorted loops; a     *)
(* file is usable when its image exists and it loads as a non-empty list;  *)
(* an entry is TRUE when it carries a bbox of four numbers.  A sample is   *)
(* <<file, entry>>, the entry being 0 for a page-level sample.             *)
(***************************************************************************)
AnnFile(usable, entries) == [usable |-> usable, entries |-> entries]

\* the crop-level samples of one file: one per entry with a bbox
RECURSIVE CropSamples(_, _, _)
CropSamples(fi, entries, ei) ==
    IF ei > Len(entries) THEN <<>>
    ELSE (IF entries[ei] THEN << <<fi, ei>> >> ELSE <<>>)
         \o CropSamples(fi, entries, ei + 1)

\* the samples after the file fi has been read
FileSamples(files, fi, page_level, collected) ==
    IF ~files[fi].usable THEN collected
    ELSE IF page_level THEN Append(collected, <<fi, 0>>)
    ELSE collected \o CropSamples(fi, files[fi].entries, 1)

\* the loop over the annotation files from file fi on; the test of
\* max_samples is the last statement of the loop body, which the continue
\* statements of an unusable file skip
RECURSIVE BuildFrom(_, _, _, _, _)
BuildFrom(files, fi, page_level, max_samples, collected) ==
    LET After(added) ==
            IF files[fi].usable /\ max_samples # 0 /\ Len(added) >= max_samples
            THEN added
            ELSE BuildFrom(files, fi + 1, page_level, max_samples, added)
    IN IF fi > Len(files) THEN collected
       ELSE After(FileSamples(files, fi, page_level, collected))

\* max_samples = 0 stands for None and for 0, which the code treats alike
build_samples(files, page_level, max_samples) ==
    BuildFrom(files, 1, page_level, max_samples, <<>>)


(***************************************************************************)
(* Calls of the pure helpers (SpecCalls): one call of one function on      *)
(* arguments drawn from small pools                                        *)
(***************************************************************************)
NameLen == 4

\* product names over two letters, names that differ in case only, a blank
\* name and the empty name
NamePool ==
    {JStr(t) : t \in [1..NameLen -> {"a", "b"}]}
    \cup {JStr(sEi), JStr(sEiUpper), JStr(sEis), JStr(<<" ">>), JStr(<<>>)}

NameCalls == {<<"_name_similarity", <<a, b>> >> : a \in NamePool, b \in NamePool}

\* prices as they occur in annotations and predictions: null, numbers and
\* texts with and without a numeric token, some of them negative
CallPrices ==
    {JNone, JInt(2), JInt(-3), JFloat(199), JFloat(-150), p199, p15, pComma, pText,
     JStr(<<"1", ",", "9", "9">>),
     JStr(<<"-", "1", ".", "5">>),
     JStr(<<"a", "b", "c">>),
     JStr(<<"1", ".", "9", "9", " ", "€">>),
     JStr(<<"a", "b", " ", "2">>),
     JStr(<<>>),
     JStr(<<"2", "-", "3">>),
     JStr(<<"a", "-", "7", ",", "5", "b">>),
     JStr(<<"0", ".", "5">>),
     JStr(<<"1", "2">>)}

PriceCalls == {<<"_normalize_price", <<v>> >> : v \in CallPrices}

\* bounding boxes [x1, y1, x2, y2] with corners on a grid, inverted and
\* zero-area boxes included, a missing box and an empty one
Grid == {0, 500, 1000}
CallBoxes ==
    {JList(<<x1, y1, x2, y2>>) : x1 \in Grid, y1 \in Grid, x2 \in Grid, y2 \in Grid}
    \cup {JNone, JList(<<>>)}

IouCalls == {<<"calculate_iou", <<b1, b2>> >> : b1 \in CallBoxes, b2 \in CallBoxes}

\* each long form of a unit with its canonical abbreviation
UnitForms ==
    {<<<<"s", "t", "ü", "c", "k">>, <<"s", "t", "k">>>>,
     <<<<"s", "t", "u", "e", "c", "k">>, <<"s", "t", "k">>>>,
     <<<<"s", "t", "u", "c", "k">>, <<"s", "t", "k">>>>,
     <<<<"p", "i", "e", "c", "e">>, <<"s", "t", "k">>>>,
     <<<<"p", "a", "c", "k", "u", "n", "g">>, <<"p", "a", "c", "k">>>>,
     <<<<"p", "k">>, <<"p", "a", "c", "k">>>>,
     <<<<"l", "i", "t", "e", "r">>, <<"l">>>>,
     <<<<"m", "i", "l", "l", "i", "l", "i", "t", "e", "r">>, <<"m", "l">>>>,
     <<<<"g", "r", "a", "m", "m">>, <<"g">>>>,
     <<<<"k", "i", "l", "o", "g", "r", "a", "m", "m">>, <<"k", "g">>>>}

\* the quantities a unit is written after
Quantities == {<<>>, <<"1", " ">>, <<"5", "0", "0", " ">>}

\* units spelled with a long form, paired with the same unit spelled with the
\* abbreviation
UnitSpellings == {<<q \o f[1], q \o f[2]>> : q \in Quantities, f \in UnitForms}

CallUnits ==
    {JStr(sp[i]) : sp \in UnitSpellings, i \in 1..2}
    \cup {JNone, u1l, uL, u1liter, u500g, u500ml, uPrice, uNumber, uKgPreis}

UnitCalls == {<<f, <<u>> >> : f \in {"_normalize_unit", "_normalize_unit_eval"}, u \in CallUnits}

MaxFiles == 2
MaxEntries == 2
MaxCap == 2

\* annotation files: unusable ones, and usable ones with up to MaxEntries
\* entries, with and without a bbox
AnnFiles ==
    {AnnFile(FALSE, <<>>)}
    \cup {AnnFile(TRUE, e) : e \in UNION {[1..n -> BOOLEAN] : n \in 1..MaxEntries}}

BuildCalls ==
    {<<"build_samples", <<fs, pl, cap>> >> :
        fs \in UNION {[1..n -> AnnFiles] : n \in 0..MaxFiles},
        pl \in BOOLEAN, cap \in 0..MaxCap}

CallInputs == NameCalls \cup PriceCalls \cup IouCalls \cup UnitCalls \cup BuildCalls

InitCalls ==
    /\ \E c \in CallInputs : fn = c[1] /\ args = c[2]
    /\ call_pc = "call"
    /\ ret = <<>>
    /\ cur_gt = <<>> /\ cur_pred = <<>> /\ score_pc = "idle" /\ matches = <<>>
    /\ metrics = NoMetrics /\ report = NoReport
    /\ ParseIdle
    /\ RunIdle
    /\ RetryIdle
    /\ ThreadIdle

\* the call returns value
Return(value) ==
    /\ call_pc = "call"
    /\ ret' = value
    /\ call_pc' = "returned"
    /\ UNCHANGED <<fn, args, score_vars, parse_vars, run_vars, retry_vars, thread_vars>>

CallNameSimilarity ==
    /\ fn = "_name_similarity"
    /\ Return(_name_similarity(args[1], args[2]))

CallNormalizePrice ==
    /\ fn = "_normalize_price"
    /\ Return(_normalize_price(args[1]))

CallCalculateIou ==
    /\ fn = "calculate_iou"
    /\ Return(calculate_iou(args[1], args[2]))

CallNormalizeUnit ==
    /\ fn = "_normalize_unit"
    /\ Return(_normalize_unit(args[1]))

CallNormalizeUnitEval ==
    /\ fn = "_normalize_unit_eval"
    /\ Return(_normalize_unit_eval(args[1]))

CallBuildSamples ==
    /\ fn = "build_samples"
    /\ Return(build_samples(args[1], args[2], args[3]))

NextCalls ==
    \/ CallNameSimilarity \/ CallNormalizePrice \/ CallCalculateIou
    \/ CallNormalizeUnit \/ CallNormalizeUnitEval \/ CallBuildSamples

SpecCalls == InitCalls /\ [][NextCalls]_vars


(***************************************************************************)
(* Concurrent calls of _score_prediction_lists (SpecThreads).  Each thread *)
(* runs one call in its own frame; a step is one iteration of the loop of  *)
(* _match_deals or of the loop over the matches, and steps of different    *)
(* threads interleave freely.                                              *)
(***************************************************************************)
Threads == {"t1", "t2"}

ThreadDeals == <<Deal(JStr(sEi), p199, u1l), Deal(JStr(sEis), p200, JNone)>>

ThreadLists ==
    {<<>>, <<ThreadDeals[1]>>, <<ThreadDeals[1], ThreadDeals[2]>>,
     <<ThreadDeals[2], ThreadDeals[1]>>}

\* the pairs of lists a caller passes
ThreadSamples == Overpredictions \cup (ThreadLists \X ThreadLists)

\* the frame of a call at its first statement
Frame(gt_list, pred_list) ==
    [gt_list |-> gt_list, pred_list |-> pred_list, pc |-> "match", gi |-> 1,
     used_pred |-> {}, matches |-> <<>>, mi |-> 1, counts |-> NoCounts,
     ret |-> NoMetrics]

\* a used_pred set that every thread adds to and reads
UsedByAny(t) == UNION {threads[u].used_pred : u \in Threads}

\* used_pred = set() is a local of the call of thread t
UsedBy(t) == threads[t].used_pred

InitThreads ==
    /\ given \in [Threads -> ThreadSamples]
    /\ threads = [t \in Threads |-> Frame(given[t][1], given[t][2])]
    /\ cur_gt = <<>> /\ cur_pred = <<>> /\ score_pc = "idle" /\ matches = <<>>
    /\ metrics = NoMetrics /\ report = NoReport
    /\ ParseIdle
    /\ RunIdle
    /\ RetryIdle
    /\ CallIdle

\* the frame of thread t becomes frame
ThreadStep(t, frame) ==
    /\ threads' = [threads EXCEPT ![t] = frame]
    /\ UNCHANGED <<given, score_vars, parse_vars, run_vars, retry_vars, call_vars>>

\* the frame after the iteration of _match_deals that found best
Claimed(f, best) ==
    IF CommitsMatch(best)
    THEN [f EXCEPT !.used_pred = @ \cup {best[1]},
                   !.matches = Append(@, <<f.gi, best[1], best[2]>>),
                   !.gi = @ + 1]
    ELSE [f EXCEPT !.gi = @ + 1]

\* one iteration of for gi, gt in enumerate(gt_list)
ThreadMatch(t) ==
    /\ threads[t].pc = "match" /\ threads[t].gi <= Len(threads[t].gt_list)
    /\ ThreadStep(t, Claimed(threads[t],
                       BestPred(Get(threads[t].gt_list[threads[t].gi].product_name),
                                threads[t].pred_list, UsedBy(t), 1, <<0, FZero>>)))

\* _match_deals returns its matches to _score_prediction_lists
ThreadMatched(t) ==
    /\ threads[t].pc = "match" /\ threads[t].gi > Len(threads[t].gt_list)
    /\ ThreadStep(t, [threads[t] EXCEPT !.pc = "score"])

\* the frame after the iteration of the loop over the matches for the pair
\* gt, pred
Tallied(f, gt, pred) ==
    [f EXCEPT !.counts = Tally(@, PriceOk(gt, pred), UnitOk(gt, pred)), !.mi = @ + 1]

\* one iteration of for gi, pi, _ in matches
ThreadScore(t) ==
    /\ threads[t].pc = "score" /\ threads[t].mi <= Len(threads[t].matches)
    /\ ThreadStep(t, Tallied(threads[t],
                       threads[t].gt_list[threads[t].matches[threads[t].mi][1]],
                       threads[t].pred_list[threads[t].matches[threads[t].mi][2]]))

\* the rates are derived and the dict is returned
ThreadReturn(t) ==
    /\ threads[t].pc = "score" /\ threads[t].mi > Len(threads[t].matches)
    /\ ThreadStep(t, [threads[t] EXCEPT
                    !.pc = "done",
                    !.ret = ScoreDict(Len(threads[t].gt_list), Len(threads[t].pred_list),
                                      Len(threads[t].matches), threads[t].counts,
                                      Rate(Len(threads[t].matches), Len(threads[t].pred_list)),
                                      Rate(Len(threads[t].matches), Len(threads[t].gt_list)))])

NextThreads ==
    \E t \in Threads :
        ThreadMatch(t) \/ ThreadMatched(t) \/ ThreadScore(t) \/ ThreadReturn(t)

SpecThreads == InitThreads /\ [][NextThreads]_vars


(***************************************************************************)
(* Properties of matching and scoring (SpecScore)                          *)
(***************************************************************************)
\* no ground-truth index and no predicted index occurs in two matches
Injective(ms) ==
    \A i, j \in 1..Len(ms) : i # j => (ms[i][1] # ms[j][1] /\ ms[i][2] # ms[j][2])

InRange(ms, n_gt, n_pred) ==
    \A i \in 1..Len(ms) : ms[i][1] \in 1..n_gt /\ ms[i][2] \in 1..n_pred

\* C1: for any gt_list and pred_list the matches of one sample form a partial
\* bijection: no predicted index and no ground-truth index occurs in more than
\* one match, for _match_deals and for the matching loop of evaluate_metrics.
C1_PartialBijection ==
    /\ score_pc = "scored" =>
          Injective(matches) /\ InRange(matches, Len(cur_gt), Len(cur_pred))
    /\ score_pc = "evaluated" =>
          \A k \in 1..Len(report.sample_matches) :
              /\ Injective(report.sample_matches[k])
              /\ InRange(report.sample_matches[k], Len(cur_gt), Len(cur_pred))

\* two ground-truth items whose names both reach the threshold for the
\* predicted item the first one claimed, and both are matched
C1_Witness ==
    /\ score_pc = "scored"
    /\ Len(cur_gt) = 2
    /\ Len(matches) = 2
    /\ FLe(NAME_SIM_THRESHOLD,
           _name_similarity(Get(cur_gt[2].product_name),
                            Get(cur_pred[matches[1][2]].product_name)))

\* A greedy single pass: pairs are <<probe, candidate, score>>; the probes
\* 1..n_probe are taken in order; each considers the candidates not claimed
\* by an earlier probe, takes one of maximum Sim, and is paired iff that
\* maximum passes Commit.
Greedy(pairs, n_probe, n_cand, Sim(_, _), Commit(_)) ==
    /\ \A k \in 1..Len(pairs) : pairs[k][1] \in 1..n_probe /\ pairs[k][2] \in 1..n_cand
    /\ \A pr \in 1..n_probe :
          LET used == {pairs[k][2] : k \in {x \in 1..Len(pairs) : pairs[x][1] < pr}}
              avail == (1..n_cand) \ used
              mine == {k \in 1..Len(pairs) : pairs[k][1] = pr}
          IN IF \E c \in avail : Commit(Sim(pr, c))
             THEN /\ Cardinality(mine) = 1
                  /\ \A k \in mine :
                        /\ pairs[k][2] \in avail
                        /\ pairs[k][3] = Sim(pr, pairs[k][2])
                        /\ \A c \in avail : FLe(Sim(pr, c), pairs[k][3])
             ELSE mine = {}

SwapPairs(ms) == [k \in 1..Len(ms) |-> <<ms[k][2], ms[k][1], ms[k][3]>>]

PrebenchSim(gi, pi) ==
    _name_similarity(Get(cur_gt[gi].product_name), Get(cur_pred[pi].product_name))
\* the ratio evaluate_metrics computes for predicted item pi and ground truth gi
BenchSim(gi, pi) == SeqRatio(BenchName(cur_pred[pi]), BenchName(cur_gt[gi]))
BenchSimByPred(pi, gi) == BenchSim(gi, pi)
AtLeastNameSim(x) == FLe(NAME_SIM_THRESHOLD, x)
AtLeastNameMatch(x) == FLe(NAME_MATCH_THRESHOLD, x)
AboveNameMatch(x) == FLt(NAME_MATCH_THRESHOLD, x)

MatchDealsIsGreedy ==
    score_pc = "scored" =>
        Greedy(matches, Len(cur_gt), Len(cur_pred), PrebenchSim, AtLeastNameSim)

RateIs(r, n, d) == IF d # 0 THEN r[2] # 0 /\ r[1] * d = n * r[2] ELSE r = FZero

\* C8: every derived rate of a sample is its stated quotient when the
\* denominator is non-zero and exactly 0 otherwise; empty gt and pred give
\* precision = recall = F1 = 0; non-empty gt with empty pred gives
\* matched_count = 0, recall = 0 and safe_deal_rate = 0.
C8_DerivedRates ==
    score_pc = "scored" =>
        LET m == metrics
            g == Len(cur_gt)
            p == Len(cur_pred)
            k == Len(matches)
        IN /\ m.gt_total = g /\ m.pred_total = p /\ m.matched_count = k
           /\ RateIs(m.precision, k, p)
           /\ RateIs(m.deal_retrieval_rate, k, g)
           \* F1 = 2PR/(P+R) with P = k/p and R = k/g is 2k/(g+p)
           /\ IF k # 0 THEN m.f1[2] # 0 /\ m.f1[1] * (g + p) = 2 * k * m.f1[2]
              ELSE m.f1 = FZero
           /\ RateIs(m.overprediction_rate, p - k, p)
           /\ RateIs(m.price_reliability, m.price_correct_count, k)
           /\ RateIs(m.safe_deal_rate, m.e2e_correct_count, g)
           /\ RateIs(m.price_accuracy, m.price_correct_count, g)
           /\ RateIs(m.unit_accuracy, m.unit_correct_count, g)
           /\ (g = 0 /\ p = 0) =>
                 m.precision = FZero /\ m.deal_retrieval_rate = FZero /\ m.f1 = FZero
           /\ (g > 0 /\ p = 0) =>
                 k = 0 /\ m.deal_retrieval_rate = FZero /\ m.safe_deal_rate = FZero

\* two ground-truth items scored against an empty prediction
C8_Witness ==
    /\ score_pc = "scored"
    /\ Len(cur_gt) = 2
    /\ Len(cur_pred) = 0
    /\ metrics.deal_retrieval_rate = FZero

\* both prices parse and differ by at most NUMERIC_TOLERANCE
PriceWithinTolerance(gt, pred) ==
    LET g == _parse_number(Get(gt.price))
        p == _parse_number(Get(pred.price))
    IN g.ok /\ p.ok /\ Abs(g.c - p.c) <= NUMERIC_TOLERANCE

\* C9: for every matched pair, in every harness variant, the price counts as
\* correct iff both prices parse to numbers and differ by at most 0.01
\* (inclusive).
C9_PriceCorrect ==
    /\ score_pc = "scored" =>
          metrics.price_correct_count =
             Cardinality({k \in 1..Len(matches) :
                 PriceWithinTolerance(cur_gt[matches[k][1]], cur_pred[matches[k][2]])})
    /\ score_pc = "evaluated" =>
          LET ms == report.sample_matches[1]
          IN RateIs(report.price_acc,
                    Cardinality({k \in 1..Len(ms) :
                        PriceWithinTolerance(cur_gt[ms[k][1]], cur_pred[ms[k][2]])}),
                    report.tp)

\* one of the normalized units is empty, or the Jaccard index of their token
\* sets is at least 1/2
UnitCountsCorrect(gt, pred) ==
    LET a == _normalize_unit_eval(Get(gt.unit))
        b == _normalize_unit_eval(Get(pred.unit))
        ta == Tokens(a)
        tb == Tokens(b)
    IN \/ a = <<>>
       \/ b = <<>>
       \/ (ta = {} /\ tb = {})
       \/ (ta # {} /\ tb # {}
           /\ UNIT_SIM_THRESHOLD[2] * Cardinality(ta \cap tb)
                 >= UNIT_SIM_THRESHOLD[1] * Cardinality(ta \cup tb))

\* C10: for every matched pair the unit counts as correct iff one of the two
\* normalized units is empty or their token-set similarity is >= 0.5; two
\* non-empty units below 0.5 never count.
C10_UnitCorrect ==
    score_pc = "scored" =>
        metrics.unit_correct_count =
           Cardinality({k \in 1..Len(matches) :
               UnitCountsCorrect(cur_gt[matches[k][1]], cur_pred[matches[k][2]])})

\* a matched pair of non-empty units whose similarity is exactly 0.5
C10_Witness ==
    /\ score_pc = "scored"
    /\ Len(matches) = 1
    /\ LET a == _normalize_unit_eval(Get(cur_gt[matches[1][1]].unit))
           b == _normalize_unit_eval(Get(cur_pred[matches[1][2]].unit))
       IN a # <<>> /\ b # <<>> /\ _token_set_similarity(a, b) = <<1, 2>>
    /\ metrics.unit_correct_count = 1


(***************************************************************************)
(* Properties of recovering a response (SpecParse)                         *)
(***************************************************************************)
\* C4: whatever value is recovered from a prediction, scoring the sample
\* completes and returns metrics: no exception leaves _score_prediction_lists,
\* nor evaluate_metrics with calculate_iou.
C4_ScoringCompletes ==
    /\ score_pc = "scored" =>
          metrics.gt_total = Len(cur_gt) /\ metrics.pred_total = Len(cur_pred)
    /\ score_pc = "evaluated" => ~report.raised

\* C5: a JSON array of deal objects wrapped in a code fence tagged json is
\* recovered to the same predicted list as the bare array, whatever its
\* length, by _parse_json_from_text with _ensure_list and by
\* clean_json_output.
C5_FencedSameAsBare ==
    \A arr \in Arrays :
        resp_text = Fenced(ArrayText(arr)) =>
            /\ score_pc = "scored" =>
                  cur_pred = _ensure_list(_parse_json_from_text(ArrayText(arr)))
            /\ score_pc = "evaluated" => pred_obj = clean_json_output(ArrayText(arr))


(***************************************************************************)
(* Properties of harness runs (SpecHarness)                                *)
(***************************************************************************)
\* C3: once a KeyboardInterrupt was raised inside the per-sample loop,
\* processing has stopped, no exception has left main, and the report that
\* is produced is computed over exactly the samples completed before it.
C3_InterruptYieldsReport ==
    interrupted =>
        /\ ~escaped
        /\ run_pc \in {"report", "done"}
        /\ run_pc = "done" =>
              results = evaluate_metrics(Take(preds, Len(gts)), gts)

\* the log lines of scored samples
SampleRecords(lg) == SelectSeq(lg, LAMBDA r : "metrics" \in DOMAIN r)

\* C6: in a _run_model run, a sample whose prediction text fails every
\* recovery strategy is handed to the matcher as the empty list, has
\* json_parse_ok false, and is still scored, logged and counted; every
\* sample the loop has passed has its log line.
C6_MalformedIsEmptyAndCounted ==
    harness = "prebench" =>
        /\ \A k \in 1..Len(log) :
              "metrics" \in DOMAIN log[k] =>
                  /\ log[k].metrics.pred_total =
                        Len(_ensure_list(_parse_json_from_text(log[k].prediction)))
                  /\ _parse_json_from_text(log[k].prediction) = PNone =>
                        /\ ~log[k].metrics.json_parse_ok
                        /\ log[k].metrics.pred_total = 0
                        /\ log[k].metrics.matched_count = 0
                        /\ FEq(log[k].metrics.precision, FZero)
        /\ run_pc \in {"loop", "extracting"} =>
              /\ Len(log) = idx - 1
              /\ \A k \in 1..Len(log) : log[k].index = k
              /\ agg.total_samples = Len(SampleRecords(log))
              /\ agg.total_samples + counters.bad_image = idx - 1

\* a run that scored a sample whose text no strategy recovered
C6_Witness ==
    /\ harness = "prebench"
    /\ run_pc = "done"
    /\ \E k \in 1..Len(log) :
          /\ "metrics" \in DOMAIN log[k]
          /\ log[k].prediction = <<"word">>
          /\ ~log[k].metrics.json_parse_ok
    /\ all_summaries[Len(all_summaries)].total_samples = Len(SampleRecords(log))

RECURSIVE SumSeq(_)
SumSeq(q) == IF q = <<>> THEN FZero ELSE FAdd(q[1], SumSeq(Tail(q)))

\* r is the arithmetic mean of the fractions of q (0 for no fractions)
IsMeanOf(r, q) ==
    IF q = <<>> THEN FEq(r, FZero)
    ELSE r[2] # 0 /\ r[1] * SumSeq(q)[2] * Len(q) = SumSeq(q)[1] * r[2]

\* the summary _run_model has just returned holds, for every rate, the mean
\* of the per-sample values in the log
RunModelIsMacro ==
    (/\ harness = "prebench" /\ run_pc = "main" /\ spec_idx > 1
     /\ "error" \notin DOMAIN all_summaries[spec_idx - 1]) =>
        LET sm == all_summaries[spec_idx - 1]
            recs == SampleRecords(log)
            n == Len(recs)
        IN /\ sm.total_samples = n
           /\ IsMeanOf(sm.precision, [k \in 1..n |-> recs[k].metrics.precision])
           /\ IsMeanOf(sm.deal_retrieval_rate,
                       [k \in 1..n |-> recs[k].metrics.deal_retrieval_rate])
           /\ IsMeanOf(sm.f1, [k \in 1..n |-> recs[k].metrics.f1])
           /\ IsMeanOf(sm.overprediction_rate,
                       [k \in 1..n |-> recs[k].metrics.overprediction_rate])
           /\ IsMeanOf(sm.price_reliability,
                       [k \in 1..n |-> recs[k].metrics.price_reliability])
           /\ IsMeanOf(sm.safe_deal_rate, [k \in 1..n |-> recs[k].metrics.safe_deal_rate])
           /\ IsMeanOf(sm.price_accuracy, [k \in 1..n |-> recs[k].metrics.price_accuracy])
           /\ IsMeanOf(sm.unit_accuracy, [k \in 1..n |-> recs[k].metrics.unit_accuracy])

\* per-sample counts of a finished benchmark run
BenchTp(k) == Len(results.sample_matches[k])
BenchPredTotal(k) == Len(preds[k].items)
BenchGtTotal(k) == Len(gts[k].items)
BenchScored == Len(results.sample_matches)

RECURSIVE SumInts(_)
SumInts(q) == IF q = <<>> THEN 0 ELSE q[1] + SumInts(Tail(q))

BothCorrect(ms, gt_list, pred_list) ==
    {k \in 1..Len(ms) : /\ PriceOk(gt_list[ms[k][1]], pred_list[ms[k][2]])
                        /\ UnitOk(gt_list[ms[k][1]], pred_list[ms[k][2]])}

\* C11: e2e_correct_count counts exactly the matched pairs that are both
\* price-correct and unit-correct, and unmatched ground-truth items never
\* count; a name-matched item with a wrong price raises recall but adds
\* nothing to price_correct_count or safe_deal_rate.
C11_EndToEndCount ==
    score_pc = "scored" =>
        /\ metrics.e2e_correct_count = Cardinality(BothCorrect(matches, cur_gt, cur_pred))
        /\ metrics.e2e_correct_count <= metrics.price_correct_count
        /\ metrics.e2e_correct_count <= metrics.unit_correct_count
        /\ metrics.e2e_correct_count <= metrics.matched_count
        /\ RateIs(metrics.safe_deal_rate, metrics.e2e_correct_count, Len(cur_gt))
        /\ \A k \in 1..Len(matches) :
              ~PriceOk(cur_gt[matches[k][1]], cur_pred[matches[k][2]]) =>
                  /\ metrics.price_correct_count < Len(matches)
                  /\ metrics.e2e_correct_count < Len(matches)
        /\ (Len(cur_gt) = 1 /\ Len(matches) = 1
              /\ ~PriceOk(cur_gt[1], cur_pred[matches[1][2]])) =>
                  /\ FEq(metrics.deal_retrieval_rate, FOne)
                  /\ FEq(metrics.safe_deal_rate, FZero)
                  /\ metrics.price_correct_count = 0

\* one ground-truth item priced 1.99 matched by name to a prediction priced
\* 2.49: recall 1 and safe_deal_rate 0
C11_Witness ==
    /\ score_pc = "scored"
    /\ Len(cur_gt) = 1 /\ Len(matches) = 1
    /\ Get(cur_gt[1].price) = p199
    /\ Get(cur_pred[1].price) = p249
    /\ FEq(metrics.deal_retrieval_rate, FOne)
    /\ FEq(metrics.safe_deal_rate, FZero)
    /\ metrics.price_correct_count = 0

(***************************************************************************)
(* The per-sample loop (SpecHarness)                                       *)
(***************************************************************************)
\* the samples of the running model that the loop has finished
Iterated == IF run_pc \in {"loop", "extracting"} THEN idx - 1 ELSE Len(log)

\* C12: the harness processes the samples one at a time in dataset order: at
\* most one extractor call per sample, then exactly one log record whose index
\* is the sample's 1-based position, written before the extractor call of the
\* next sample starts; after k samples the log holds k records with the
\* indices 1..k in increasing order.
C12_SequentialLog ==
    harness = "prebench" =>
        /\ Len(log) = Iterated
        /\ \A k \in 1..Len(log) : log[k].index = k
        /\ \A i \in 1..Len(calls) :
              /\ calls[i].index \in 1..Len(samples)
              /\ calls[i].logged = calls[i].index - 1
              /\ \A j \in 1..Len(calls) : i < j => calls[i].index < calls[j].index
        /\ run_pc = "extracting" =>
              /\ calls # <<>>
              /\ calls[Len(calls)].index = idx

\* a third extractor call is in flight after a bad image was skipped without
\* a call, and the log holds the records of the samples before it
C12_Witness ==
    /\ harness = "prebench" /\ run_pc = "extracting"
    /\ Len(calls) = 3 /\ idx = 4 /\ Len(log) = 3
    /\ \E k \in 1..Len(log) : "error" \in DOMAIN log[k]

\* the samples iterated so far that qualify for the diagnostics: a bad image,
\* a response that failed to parse, or an empty predicted list
Qualifying ==
    { k \in 1..Len(log) :
          \/ "error" \in DOMAIN log[k]
          \/ /\ "metrics" \in DOMAIN log[k]
             /\ (~log[k].metrics.json_parse_ok \/ log[k].metrics.pred_total = 0) }

\* C13: at every point of a run the diagnostics list holds at most
\* DIAG_MAX_SAMPLES entries, every entry belongs to a bad-image sample or to a
\* sample whose response failed to parse or whose predicted list is empty, and
\* the entries are the first such samples in index order.
C13_DiagnosticsCapped ==
    (harness = "prebench" /\ run_pc \in {"loop", "extracting"}) =>
        /\ Len(diag_samples) <= DIAG_MAX_SAMPLES
        /\ Len(diag_samples) =
              IF Cardinality(Qualifying) < DIAG_MAX_SAMPLES
              THEN Cardinality(Qualifying) ELSE DIAG_MAX_SAMPLES
        /\ \A i \in 1..Len(diag_samples) :
              /\ diag_samples[i].index \in Qualifying
              /\ Cardinality({ q \in Qualifying : q < diag_samples[i].index }) = i - 1

\* a fourth qualifying sample has been iterated and the list still holds the
\* first three, a bad image and a failed parse among them
C13_Witness ==
    /\ harness = "prebench" /\ run_pc = "loop"
    /\ Cardinality(Qualifying) = DIAG_MAX_SAMPLES + 1
    /\ Len(diag_samples) = DIAG_MAX_SAMPLES
    /\ \E i \in 1..Len(diag_samples) : "reason" \in DOMAIN diag_samples[i]
    /\ \E i \in 1..Len(diag_samples) :
          /\ "json_parse_ok" \in DOMAIN diag_samples[i]
          /\ ~diag_samples[i].json_parse_ok

\* C14: when the extractor call for a sample raises or times out the harness
\* does not abort: the sample is recorded in the log as a failed sample
\* carrying its error message, and processing continues with the next sample.
C14_FailureLogged ==
    harness = "prebench" =>
        \A k \in failures :
            /\ run_pc \in {"loop", "extracting"}
            /\ k <= Len(log)
            /\ "error" \in DOMAIN log[k]

(***************************************************************************)
(* Missing credentials (SpecHarness)                                       *)
(***************************************************************************)
\* the running configuration needs an API key and none is given
KeyMissing ==
    /\ ~api_key
    /\ \/ harness = "bench"
       \/ /\ harness = "prebench" /\ run_pc \in {"loop", "extracting"}
          /\ IsCloudModel(specs[spec_idx])

\* C16: if the credentials the selected configuration requires are missing
\* the harness aborts before any sample is processed: no extractor call is
\* made, no log record is written and no sample is counted; and no other
\* error ends the run of a model.
C16_ConfigurationAborts ==
    /\ KeyMissing =>
          /\ calls = <<>> /\ log = <<>> /\ preds = <<>>
          /\ harness = "prebench" => agg.total_samples = 0
    /\ \A i \in 1..Len(all_summaries) :
          "error" \in DOMAIN all_summaries[i] =>
              (~api_key /\ IsCloudModel(all_summaries[i].model_id))

(***************************************************************************)
(* Invalid ground truth (SpecHarness)                                      *)
(***************************************************************************)
\* the target text of sample k does not parse as JSON
TargetInvalid(k) == _parse_json_from_text(samples[k].target) = PNone

\* the samples of the log, other than bad images, whose gt_total is 0
EmptyGtRecords ==
    { k \in 1..Len(log) : "metrics" \in DOMAIN log[k] /\ log[k].metrics.gt_total = 0 }

WellFormed(t) ==
    { ij \in (1..Len(t)) \X (1..Len(t)) :
          /\ ij[1] < ij[2]
          /\ t[ij[1]] \in {"[", "{"}
          /\ json_loads(SubSeq(t, ij[1], ij[2])).ok }

\* the parse of the well-formed substring that ends last, None if there is
\* none
RightmostWellFormed(t) ==
    LET Pick(w) == IF w = {} THEN PNone
                   ELSE LET ij == CHOOSE x \in w : \A y \in w : y[2] <= x[2]
                        IN json_loads(SubSeq(t, ij[1], ij[2])).v
    IN Pick(WellFormed(t))

\* C18: recovery tries its strategies in a fixed order and stops at the first
\* success: a text that is valid JSON as a whole is returned as parsed;
\* otherwise the recovered value is the parse of the last (right-most)
\* well-formed [...] or {...} substring of the text, whichever bracket kind
\* it is.
C18_RightmostSubstring ==
    score_pc = "scored" =>
        pred_obj = IF json_loads(resp_text).ok THEN json_loads(resp_text).v
                   ELSE RightmostWellFormed(resp_text)

(***************************************************************************)
(* Duplicate names and ground-truth order (SpecScore)                      *)
(***************************************************************************)
\* gt_list and pred_list hold the same number of deals, all of one name
SameNameLists ==
    /\ cur_gt # <<>> /\ Len(cur_gt) = Len(cur_pred)
    /\ cur_gt[1].product_name.k = "str"
    /\ \A i \in 1..Len(cur_gt) : cur_gt[i].product_name = cur_gt[1].product_name
    /\ \A j \in 1..Len(cur_pred) : cur_pred[j].product_name = cur_gt[1].product_name

\* ms pairs every ground-truth index with a predicted index of its own
PairsAll(ms, k) ==
    /\ Len(ms) = k
    /\ { ms[i][1] : i \in 1..Len(ms) } = 1..k
    /\ { ms[i][2] : i \in 1..Len(ms) } = 1..k

\* C19: when gt_list and pred_list each hold k items of the same product name
\* that differ only in price, the matcher produces exactly k matches over k
\* distinct ground-truth indices and k distinct predicted indices, in
\* _match_deals and in evaluate_metrics.
C19_DuplicatesPairedOnce ==
    SameNameLists =>
        /\ score_pc = "scored" =>
              PairsAll(matches, Len(cur_gt)) /\ metrics.matched_count = Len(cur_gt)
        /\ score_pc = "evaluated" =>
              /\ ~report.raised
              /\ PairsAll(report.sample_matches[1], Len(cur_gt))

\* Scenario E: two Milch items with different prices on both sides, the
\* predictions in the other order, and two matches
C19_Witness ==
    /\ score_pc = "scored" /\ SameNameLists /\ Len(cur_gt) = 2
    /\ cur_gt[1].product_name = JStr(sMilch)
    /\ cur_gt[1].price # cur_gt[2].price
    /\ cur_pred[1] = cur_gt[2] /\ cur_pred[2] = cur_gt[1]
    /\ Len(matches) = 2

Reversed(s) == [i \in 1..Len(s) |-> s[Len(s) + 1 - i]]

\* the matches of ms whose ground-truth index is at most n
UpTo(ms, n) == SelectSeq(ms, LAMBDA m : m[1] <= n)

\* the pairs of ms as deals, whatever their positions
PairSet(ms, gt_list, pred_list) ==
    { <<gt_list[ms[i][1]], pred_list[ms[i][2]]>> : i \in 1..Len(ms) }

\* "eis" before "ei" in the ground truth, "ei" before "es" in the prediction
OrderGt == << Deal(JStr(sEis), p200, JNone), Deal(JStr(sEi), p199, u1l) >>
OrderPred == << Deal(JStr(sEi), p199, u1l), Deal(JStr(sEs), JFloat(199), u1liter) >>

\* C20: the matcher is a single-pass greedy assignment that depends on the
\* order of gt_list: the matches committed for the first n ground-truth items
\* are never released or re-assigned by the later ones, and for the lists
\* OrderGt, OrderPred the same ground-truth items in the other order give a
\* different set of pairs and a larger matched_count, so the result is not
\* always a maximum matching.
C20_OrderDependentGreedy ==
    score_pc = "scored" =>
        /\ \A n \in 0..Len(cur_gt) :
              _match_deals(Take(cur_gt, n), cur_pred) = UpTo(matches, n)
        /\ (cur_gt = OrderGt /\ cur_pred = OrderPred) =>
              /\ metrics.matched_count = 1
              /\ Len(_match_deals(Reversed(cur_gt), cur_pred)) = 2
              /\ PairSet(matches, cur_gt, cur_pred)
                    # PairSet(_match_deals(Reversed(cur_gt), cur_pred),
                              Reversed(cur_gt), cur_pred)

\* "eis" has claimed "ei" at similarity 0.8, and "ei" is left without a match
C20_Witness ==
    /\ score_pc = "scored"
    /\ cur_gt = OrderGt /\ cur_pred = OrderPred
    /\ Len(matches) = 1 /\ matches[1][1] = 1 /\ matches[1][2] = 1
    /\ Len(_match_deals(Reversed(cur_gt), cur_pred)) = 2

(***************************************************************************)
(* Bounded retries (SpecRetry)                                             *)
(***************************************************************************)
\* the i-th request was answered with a transient provider error
Transient(i) == http_log[i] \in {"h429", "h503"}

\* C15: every cloud extractor call ends after a bounded number of attempts:
\* a request answered with HTTP 429 or 503 is retried after a sleep while
\* attempts remain, at most max_retries + 1 = 4 requests are made, and when
\* the attempts are exhausted the call returns the empty text.
C15_BoundedRetries ==
    retry_pc \in {"loop", "returned"} =>
        /\ Len(http_log) <= max_retries + 1
        /\ \A i \in 1..Len(http_log) :
              (Transient(i) /\ i <= max_retries) =>
                  /\ slept > 0
                  /\ retry_pc = "loop" \/ Len(http_log) > i
        /\ (retry_pc = "returned" /\ Len(http_log) = max_retries + 1
            /\ Transient(max_retries + 1)) => content = <<>>

(***************************************************************************)
(* Bounds of the per-sample counts and rates (SpecScore)                   *)
(***************************************************************************)
\* the fraction r lies in [0, 1]
InUnit(r) == r[2] > 0 /\ FLe(FZero, r) /\ FLe(r, FOne)

\* the rates of a metrics dict
RateFields ==
    {"deal_retrieval_rate", "precision", "f1", "overprediction_rate", "price_reliability",
     "safe_deal_rate", "end_to_end_recall", "name_accuracy", "price_accuracy",
     "unit_accuracy"}

\* the counts chain, the range of the rates and the order of the rates that
\* share gt_total as denominator
CountsChain ==
    /\ 0 <= metrics.e2e_correct_count
    /\ metrics.e2e_correct_count <= Min(metrics.price_correct_count,
                                        metrics.unit_correct_count)
    /\ Min(metrics.price_correct_count, metrics.unit_correct_count)
          <= metrics.matched_count
    /\ metrics.matched_count <= Min(metrics.gt_total, metrics.pred_total)
    /\ \A f \in RateFields : InUnit(metrics[f])
    /\ FLe(metrics.safe_deal_rate, metrics.price_accuracy)
    /\ FLe(metrics.price_accuracy, metrics.deal_retrieval_rate)

\* C27 as stated: for every gt_list and pred_list the counts of a sample
\* satisfy 0 <= e2e_correct_count <= min(price_correct_count,
\* unit_correct_count) <= matched_count <= min(gt_total, pred_total); every
\* derived rate lies in [0, 1], safe_deal_rate <= price_accuracy <= recall,
\* and the returned overprediction_rate equals 1 - precision whenever
\* pred_total > 0.
C27_Original ==
    score_pc = "scored" =>
        /\ CountsChain
        /\ metrics.pred_total > 0 =>
              ComplementIsQuotient(metrics.matched_count, metrics.pred_total)

\* C27 amended: the counts chain, the range of the rates and their order hold
\* as stated; overprediction_rate is the quotient
\* (pred_total - matched_count) / pred_total, which is 1 - precision in exact
\* arithmetic (the doubles may differ in the last bit).
C27_Amended ==
    score_pc = "scored" =>
        /\ CountsChain
        /\ metrics.pred_total > 0 =>
              /\ RateIs(metrics.overprediction_rate,
                        metrics.pred_total - metrics.matched_count, metrics.pred_total)
              /\ FEq(FAdd(metrics.overprediction_rate, metrics.precision), FOne)

\* one of three predictions is matched, its price right and its unit wrong:
\* precision is 1/3 and overprediction_rate is 2/3
C27_Witness ==
    /\ score_pc = "scored"
    /\ metrics.gt_total = 1 /\ metrics.pred_total = 3 /\ metrics.matched_count = 1
    /\ metrics.price_correct_count = 1 /\ metrics.e2e_correct_count = 0
    /\ metrics.overprediction_rate = <<2, 3>>
    /\ ~ComplementIsQuotient(metrics.matched_count, metrics.pred_total)

(***************************************************************************)
(* Algebraic properties of the pure helpers (SpecCalls)                    *)
(***************************************************************************)
\* a call of f has returned
HasReturned(f) == fn = f /\ call_pc = "returned"

\* C23: name_similarity is symmetric (name_similarity(a,b) =
\* name_similarity(b,a) for all names a and b) and reflexive
\* (name_similarity(a,a) = 1.0 for every non-empty a).
C23_SymmetricReflexive ==
    HasReturned("_name_similarity") =>
        /\ FEq(ret, _name_similarity(args[2], args[1]))
        /\ (args[1] = args[2] /\ args[1].s # <<>>) => FEq(ret, FOne)

\* the reflexive half of C23 alone holds
C23_Reflexive ==
    (HasReturned("_name_similarity") /\ args[1] = args[2]) => FEq(ret, FOne)

\* s matches ^\d+\.\d{2}$
IsPlainPrice(s) ==
    /\ Len(s) >= 4
    /\ s[Len(s) - 2] = "."
    /\ \A i \in (1..Len(s)) \ {Len(s) - 2} : IsDigit(s[i])

\* C24: normalize_price is idempotent (normalize_price(normalize_price(x)) =
\* normalize_price(x) for every input x), and every non-null output consists
\* of one or more digits, a dot and exactly two digits, including for inputs
\* whose first numeric token is negative.
C24_IdempotentPlainPrice ==
    HasReturned("_normalize_price") =>
        /\ _normalize_price(ret) = ret
        /\ ret # JNone => IsPlainPrice(ret.s)

\* the idempotent half of C24 alone holds
C24_Idempotent ==
    HasReturned("_normalize_price") => _normalize_price(ret) = ret

\* the box is absent: None or an empty list
MissingBox(box) == ~Truthy(box)

\* four corners that enclose a positive area
PositiveArea(box) == ~MissingBox(box) /\ box.b[1] < box.b[3] /\ box.b[2] < box.b[4]

\* four corners that are inverted or enclose no area
DegenerateBox(box) == ~MissingBox(box) /\ ~PositiveArea(box)

\* two boxes of positive area whose interiors do not meet
NonOverlapping(b1, b2) ==
    /\ PositiveArea(b1) /\ PositiveArea(b2)
    /\ \/ b1.b[3] <= b2.b[1] \/ b2.b[3] <= b1.b[1]
       \/ b1.b[4] <= b2.b[2] \/ b2.b[4] <= b1.b[2]

\* C25: calculate_iou(box, box) = 1.0 for every box of positive area;
\* calculate_iou of two non-overlapping boxes is 0.0; and it returns 0.0
\* (never a negative value, a value above 1, or a division error) whenever
\* either box is missing or degenerate (zero area or inverted corners).
C25_IouOfBoxes ==
    HasReturned("calculate_iou") =>
        /\ ~ret.raised
        /\ FLe(FZero, ret.iou) /\ FLe(ret.iou, FOne)
        /\ (PositiveArea(args[1]) /\ args[1] = args[2]) => FEq(ret.iou, FOne)
        /\ NonOverlapping(args[1], args[2]) => FEq(ret.iou, FZero)
        /\ (\E i \in 1..2 : MissingBox(args[i]) \/ DegenerateBox(args[i]))
               => FEq(ret.iou, FZero)

\* a box of positive area is compared with a degenerate box that lies apart
\* from it in both directions
C25_Witness ==
    /\ HasReturned("calculate_iou")
    /\ PositiveArea(args[1])
    /\ DegenerateBox(args[2])
    /\ args[2].b[3] < args[1].b[1] /\ args[2].b[4] < args[1].b[2]
    /\ FEq(ret.iou, FZero)

\* C26: normalize_unit rewrites every listed long form to its canonical
\* abbreviation (stück/stueck/stuck/piece to stk, packung/pk to pack, liter to
\* l, milliliter to ml, gramm to g, kilogramm to kg), so a unit spelled with a
\* long form and the same unit spelled with the abbreviation normalize to the
\* same string.
C26_LongFormsCanonical ==
    \A sp \in UnitSpellings :
        /\ (HasReturned("_normalize_unit") /\ args[1] = JStr(sp[1]))
               => ret = _normalize_unit(JStr(sp[2]))
        /\ (HasReturned("_normalize_unit_eval") /\ args[1] = JStr(sp[1]))
               => ret = _normalize_unit_eval(JStr(sp[2]))

\* C26 without the two long forms that contain a shorter long form holds
C26_ShortLongForms ==
    \A sp \in UnitSpellings :
        (/\ HasReturned("_normalize_unit")
         /\ args[1] = JStr(sp[1])
         /\ ~Contains(sp[1], <<"m","i","l","l","i">>)
         /\ ~Contains(sp[1], <<"k","i","l","o">>))
            => ret = _normalize_unit(JStr(sp[2]))

\* C30: build_samples(data_root, max_samples) with a positive max_samples
\* never returns more than max_samples samples, in page-level mode and in
\* crop-level mode alike, so a harness run never evaluates more than
\* MAX_SAMPLES samples.
C30_SamplesCapped ==
    (HasReturned("build_samples") /\ args[3] > 0) => Len(ret) <= args[3]

\* in page-level mode the cap holds
C30_PageLevelCapped ==
    (HasReturned("build_samples") /\ args[3] > 0 /\ args[2]) => Len(ret) <= args[3]

(***************************************************************************)
(* Counters of the per-sample loop and its finalisation (SpecHarness)      *)
(***************************************************************************)
\* the sums that _run_model adds the metrics of a scored sample to
SummedRates ==
    {"deal_retrieval_rate", "precision", "f1", "overprediction_rate",
     "price_reliability", "safe_deal_rate", "end_to_end_recall", "name_accuracy",
     "price_accuracy", "unit_accuracy"}

\* the rates that are set from the local counters
CountedRates == {"json_parse_rate", "empty_pred_rate", "empty_gt_rate", "avg_pred_chars"}

\* the counters at a loop boundary of _run_model: bad-image samples are counted
\* apart and add nothing to a sum
LoopCounters ==
    LET scored == SampleRecords(log)
    IN /\ agg.total_samples + counters.bad_image = idx - 1
       /\ agg.total_samples = Len(scored)
       /\ \A f \in SummedRates :
             FEq(agg[f], SumSeq([k \in 1..Len(scored) |-> scored[k].metrics[f]]))
       /\ counters.json_ok <= agg.total_samples
       /\ counters.empty_pred <= agg.total_samples
       /\ counters.empty_gt <= agg.total_samples
       /\ agg.total_samples - counters.json_ok <= counters.empty_pred

\* the summaries of runs in which no sample was scored
UnscoredSummaries ==
    {k \in 1..Len(all_summaries) :
        "error" \notin DOMAIN all_summaries[k] /\ all_summaries[k].total_samples = 0}

\* C28 as stated: at every per-sample loop boundary of a harness run
\* total_samples + skipped bad-image samples = number of samples iterated so
\* far, json_ok, empty_pred and empty_gt are each <= total_samples, and
\* total_samples - json_ok <= empty_pred; if no sample was scored, every
\* reported rate stays 0.0.
C28_Original ==
    harness = "prebench" =>
        /\ run_pc = "loop" => LoopCounters
        /\ \A k \in UnscoredSummaries :
              \A f \in SummedRates \cup CountedRates \cup {"bad_image_rate"} :
                  FEq(all_summaries[k][f], FZero)

\* C28: the loop-boundary relations of the counters hold; if no sample was
\* scored, every rate that is divided by total_samples stays 0.0, while
\* bad_image_rate is bad_image / (total_samples + bad_image) whenever a sample
\* was iterated, which is 1.0 when every sample was skipped as a bad image.
C28_Amended ==
    harness = "prebench" =>
        /\ run_pc = "loop" => LoopCounters
        /\ \A k \in UnscoredSummaries :
              /\ \A f \in SummedRates \cup CountedRates : FEq(all_summaries[k][f], FZero)
              /\ all_summaries[k].skipped_bad_images \in {0, Len(samples)}
              /\ FEq(all_summaries[k].bad_image_rate,
                     IF Len(samples) > 0 THEN FOne ELSE FZero)

\* a run whose samples were all skipped as bad images has returned its summary
C28_Witness ==
    /\ harness = "prebench"
    /\ Len(samples) >= 2
    /\ \E k \in UnscoredSummaries :
          /\ all_summaries[k].skipped_bad_images = Len(samples)
          /\ FEq(all_summaries[k].bad_image_rate, FOne)

\* the matches of evaluate_metrics for the prediction and the ground truth
\* recorded for sample k alone
OwnMatches(k) ==
    BenchPreds(preds[k].items, gts[k].items, 1, {}, <<>>, EmptyStats).sample_matches[1]

\* C29: in the benchmark harnesses an interrupt arriving at any point of the
\* loop body leaves len(preds) - len(gts) in {0, 1}; each entry of the two
\* lists belongs to the sample of its index, and the report is computed only
\* over the samples for which both were recorded, each prediction being scored
\* against the ground truth of the same sample.
C29_ParallelListsAligned ==
    harness = "bench" =>
        /\ Len(preds) - Len(gts) \in {0, 1}
        /\ \A k \in 1..Len(gts) : gts[k] = json_loads(samples[k].target).v
        /\ \A k \in 1..Len(preds) :
              preds[k] \in {clean_json_output(samples[k].response), PList(<<>>), PNone}
        /\ run_pc = "done" =>
              /\ BenchScored = Len(gts)
              /\ results.total_gt = SumInts([k \in 1..Len(gts) |-> BenchGtTotal(k)])
              /\ \A k \in 1..Len(gts) : results.sample_matches[k] = OwnMatches(k)

\* an interrupt between the two appends: the report leaves out the prediction
\* without a ground truth, which alone would have been matched
C29_Witness ==
    /\ harness = "bench" /\ interrupted /\ run_pc = "done"
    /\ Len(gts) >= 1
    /\ Len(preds) = Len(gts) + 1
    /\ results.sample_matches[Len(gts)] = <<>>
    /\ HasLen(preds[Len(preds)])
    /\ BenchPreds(preds[Len(preds)].items, gts[Len(gts)].items, 1, {}, <<>>,
                  EmptyStats).sample_matches # << <<>> >>

(***************************************************************************)
(* Concurrent scoring calls (SpecThreads)                                  *)
(***************************************************************************)
\* C21: scoring one sample reads only its own gt_list and pred_list and fixed
\* constants, leaves both input lists unchanged and writes no state visible
\* outside the call; any interleaving of concurrent scoring calls on
\* independent inputs returns, for each call, the same metrics as running it
\* alone.
C21_CallsIndependent ==
    \A t \in DOMAIN threads :
        /\ threads[t].gt_list = given[t][1]
        /\ threads[t].pred_list = given[t][2]
        /\ threads[t].pc \in {"score", "done"} =>
              threads[t].matches = _match_deals(given[t][1], given[t][2])
        /\ threads[t].pc = "done" =>
              threads[t].ret = _score_prediction_lists(given[t][1], given[t][2])

\* two calls on different inputs have both returned, each with a match on the
\* first predicted item
C21_Witness ==
    /\ DOMAIN threads = Threads
    /\ given["t1"] # given["t2"]
    /\ \A t \in Threads :
          /\ threads[t].pc = "done"
          /\ 1 \in threads[t].used_pred
          /\ threads[t].ret.matched_count >= 1

(***************************************************************************)
(* The summary files of main (SpecHarness)                                 *)
(***************************************************************************)
\* the number of model ids main has finished with
Finished == spec_idx - 1

\* C22: after the k-th configuration finishes (normally or with an exception)
\* the summary JSON and the CSV each contain exactly k entries, one per
\* configuration attempted so far in run order, with CSV columns equal to the
\* union of all summary field names; an exception raised while running one
\* configuration is recorded as that configuration's error entry and does not
\* prevent the remaining configurations from being run.
C22_SummaryFiles ==
    harness = "prebench" =>
        /\ Finished = 0 => (~summary_json.written /\ ~summary_csv.written)
        /\ Finished > 0 =>
              /\ summary_json.written /\ summary_csv.written
              /\ Len(summary_json.summaries) = Finished
              /\ Len(summary_csv.rows) = Finished
              /\ \A i \in 1..Finished :
                    /\ summary_json.summaries[i].model_id = specs[i]
                    /\ summary_csv.rows[i].model_id = specs[i]
                    /\ DOMAIN summary_csv.rows[i] = summary_csv.fieldnames
                    /\ \A f \in DOMAIN summary_json.summaries[i] :
                          summary_csv.rows[i][f] = summary_json.summaries[i][f]
              /\ summary_csv.fieldnames =
                    UNION {DOMAIN summary_json.summaries[i] : i \in 1..Finished}
        /\ (run_pc = "main" /\ Finished < Len(specs)) => ENABLED RunModelStart
        /\ run_pc = "done" => Finished = Len(specs)

\* the first of two model ids ended with an exception and the second was run
\* and scored: both files hold the error entry and then the summary
C22_Witness ==
    /\ harness = "prebench" /\ run_pc = "done"
    /\ Len(specs) = 2
    /\ summary_json.written /\ summary_csv.written
    /\ Len(summary_csv.rows) = 2
    /\ "error" \in DOMAIN summary_json.summaries[1]
    /\ "error" \notin DOMAIN summary_json.summaries[2]
    /\ summary_json.summaries[2].total_samples >= 1
    /\ {"error", "precision", "elapsed_sec"} \subseteq summary_csv.fieldnames
    /\ summary_csv.rows[2].error = <<>>

====
